---- MODULE Spec2Model ----
(***************************************************************************)
(* A model of binary-stream: the blocking BinaryReader / BinaryWriter of   *)
(* src/src/lib.rs over a seekable byte stream, the endian codec macros,    *)
(* the size guard, and the backpatching record encoder of the futures      *)
(* module's tests.                                                         *)
(*                                                                         *)
(* Numbers.  TLC's integers are 32 bits wide, so a value of a W-byte       *)
(* numeric type is held as its base-65536 limbs, least significant first   *)
(* (one limb for the 1- and 2-byte types); the top limb of a signed type   *)
(* is signed.  <<65535, 32767>> is i32::MAX, <<0, -32768>> is i32::MIN.    *)
(* A float is held as its bit pattern.  Bytes are the integers 0..255.     *)
(***************************************************************************)
EXTENDS Integers, Sequences, FiniteSets, TLC

VARIABLES
    data,       \* the stream's bytes
    pos,        \* the stream's cursor
    backend,    \* which stream the reader and writer were built over
    options,    \* Options { endian, max_buffer_size } of reader and writer
    feature64,  \* the `64bit` cargo feature
    feature32,  \* the `32bit` cargo feature, which the tokio-based modules test
    compat_flush, \* the `tokio-compat-flush` cargo feature
    pending,    \* bytes the stream took and holds in its write buffer
    nwrites,    \* write operations that succeeded so far
    wrote,      \* the last write that changed the stream: what it wrote and where
    last        \* the last operation: its inputs, its result, the state it started from

vars ==
    <<data, pos, backend, options, feature64, feature32, compat_flush, pending,
      nwrites, wrote, last>>

-----------------------------------------------------------------------------
(* Bounds of the model. *)

\* Seek targets are 0..MaxSeek.
MaxSeek == 2

\* Writes that succeed in a session.
MaxWrites == 1

\* Writes of the general session, each to a stream holding fewer bytes than this.
MaxHeld == 1

\* The max_buffer_size a session may be configured with (besides None).
MaxBuf == 2

\* Longest stream a reader is given.
MaxGiven == 5

\* Writes of a session that overwrites what it wrote.
MaxOverlap == 6

\* Fields a session encodes one after the other.
MaxFields == 2

\* Bytes held by the fixed-size buffer of the bounded-stream sessions.
FixedLen == 6

-----------------------------------------------------------------------------
(* Small helpers. *)

\* Option<usize>: None, or Some(x) holding x.
None == <<>>

Some(x) == <<x>>

Min(a, b) == IF a < b THEN a ELSE b

Max(a, b) == IF a > b THEN a ELSE b

Reverse(s) == [i \in 1..Len(s) |-> s[Len(s) + 1 - i]]

Zeros(n) == [i \in 1..n |-> 0]

\* Stands for every length of 2^31 - 1 or more.
Huge == 32767 * 65536 + 65535

-----------------------------------------------------------------------------
(* The numeric types and the endian codec. *)

\* target_pointer_width of the build.
PointerWidth == 8

IntTypes == {"u8", "i8", "u16", "i16", "u32", "i32", "u64", "i64",
             "u128", "i128", "usize", "isize"}

FloatTypes == {"f32", "f64"}

NumTypes == IntTypes \cup FloatTypes

\* Bytes of a value of the type: the length of the read_<T> buffer and of
\* to_le_bytes / to_be_bytes.
Width(t) ==
    CASE t \in {"u8", "i8"} -> 1
      [] t \in {"u16", "i16"} -> 2
      [] t \in {"u32", "i32", "f32"} -> 4
      [] t \in {"u64", "i64", "f64"} -> 8
      [] t \in {"u128", "i128"} -> 16
      [] t \in {"usize", "isize"} -> PointerWidth

Signed(t) == t \in {"i8", "i16", "i32", "i64", "i128", "isize"}

Limbs(t) == IF Width(t) = 1 THEN 1 ELSE Width(t) \div 2

\* <T>::to_le_bytes: byte i of the two's complement representation.
LeByte(t, v, i) ==
    LET limb == v[((i - 1) \div 2) + 1]
    IN IF (i - 1) % 2 = 0 THEN limb % 256 ELSE (limb \div 256) % 256

to_le_bytes(t, v) == [i \in 1..Width(t) |-> LeByte(t, v, i)]

to_be_bytes(t, v) == Reverse(to_le_bytes(t, v))

\* <T>::from_le_bytes: the value whose representation the bytes are.
from_le_bytes(t, b) ==
    [j \in 1..Limbs(t) |->
        IF Width(t) = 1
        THEN (IF Signed(t) /\ b[1] >= 128 THEN b[1] - 256 ELSE b[1])
        ELSE LET lo == b[2 * j - 1]
                 hi == b[2 * j]
             IN lo + 256 * (IF Signed(t) /\ j = Limbs(t) /\ hi >= 128
                            THEN hi - 256 ELSE hi)]

from_be_bytes(t, b) == from_le_bytes(t, Reverse(b))

\* Mutant: the Endian is ignored and the native order written.
encode_bytes_native(endian, t, v) == to_le_bytes(t, v)

\* The bytes encode_endian! hands to the stream.
encode_bytes(endian, t, v) ==
    IF endian = "Little" THEN to_le_bytes(t, v) ELSE to_be_bytes(t, v)

\* Mutant: the Endian is ignored and the buffer read in little-endian order.
decode_endian_le(endian, t, b) == from_le_bytes(t, b)

\* decode_endian!: the value of the buffer read.
decode_endian(endian, t, b) ==
    IF endian = "Little" THEN from_le_bytes(t, b) ELSE from_be_bytes(t, b)

\* `n as <T>` for a length n below 2^31.
FromLen(t, n) ==
    [j \in 1..Limbs(t) |->
        IF j = 1 THEN (IF Width(t) = 1 THEN n % 256 ELSE n % 65536)
        ELSE IF j = 2 THEN (n \div 65536) % 65536
        ELSE 0]

\* `v as usize` for an unsigned v, saturated at Huge.
AsUsize(t, v) ==
    IF \E j \in 1..Len(v) : j >= 3 /\ v[j] # 0 THEN Huge
    ELSE IF Len(v) >= 2 /\ v[2] >= 32768 THEN Huge
    ELSE IF Len(v) >= 2 THEN v[1] + 65536 * v[2]
    ELSE v[1]

-----------------------------------------------------------------------------
(* Strings.  A String is the sequence of its chars (Unicode scalar values); *)
(* str::as_bytes is its UTF-8 encoding and String::from_utf8 validates and  *)
(* decodes one.                                                             *)

\* Mutant: the surrogates pass for chars.
IsChar_any(c) == c \in 0..1114111

\* char::from_u32(c) is Some.
IsChar(c) == c \in 0..55295 \/ c \in 57344..1114111

utf8_char(c) ==
    IF c < 128 THEN <<c>>
    ELSE IF c < 2048 THEN <<192 + (c \div 64), 128 + (c % 64)>>
    ELSE IF c < 65536
    THEN <<224 + (c \div 4096), 128 + ((c \div 64) % 64), 128 + (c % 64)>>
    ELSE <<240 + (c \div 262144), 128 + ((c \div 4096) % 64),
           128 + ((c \div 64) % 64), 128 + (c % 64)>>

RECURSIVE as_bytes(_)
as_bytes(str) ==
    IF str = <<>> THEN <<>> ELSE utf8_char(Head(str)) \o as_bytes(Tail(str))

Cont(b) == b \in 128..191

\* Length of the well-formed UTF-8 sequence starting at bytes[i]; 0 if none does.
Utf8Len(bytes, i) ==
    LET b0 == bytes[i]
        avail == Len(bytes) - i + 1
    IN IF b0 < 128 THEN 1
       ELSE IF b0 \in 194..223
       THEN (IF avail >= 2 /\ Cont(bytes[i + 1]) THEN 2 ELSE 0)
       ELSE IF b0 \in 224..239
       THEN (IF /\ avail >= 3
                /\ bytes[i + 1] \in (IF b0 = 224 THEN 160..191
                                     ELSE IF b0 = 237 THEN 128..159
                                     ELSE 128..191)
                /\ Cont(bytes[i + 2])
             THEN 3 ELSE 0)
       ELSE IF b0 \in 240..244
       THEN (IF /\ avail >= 4
                /\ bytes[i + 1] \in (IF b0 = 240 THEN 144..191
                                     ELSE IF b0 = 244 THEN 128..143
                                     ELSE 128..191)
                /\ Cont(bytes[i + 2])
                /\ Cont(bytes[i + 3])
             THEN 4 ELSE 0)
       ELSE 0

Utf8Scalar(bytes, i, n) ==
    CASE n = 1 -> bytes[i]
      [] n = 2 -> (bytes[i] - 192) * 64 + (bytes[i + 1] - 128)
      [] n = 3 -> (bytes[i] - 224) * 4096 + (bytes[i + 1] - 128) * 64
                  + (bytes[i + 2] - 128)
      [] n = 4 -> (bytes[i] - 240) * 262144 + (bytes[i + 1] - 128) * 4096
                  + (bytes[i + 2] - 128) * 64 + (bytes[i + 3] - 128)

RECURSIVE Utf8Valid(_, _)
Utf8Valid(bytes, i) ==
    IF i > Len(bytes) THEN TRUE
    ELSE LET n == Utf8Len(bytes, i)
         IN n > 0 /\ Utf8Valid(bytes, i + n)

RECURSIVE Utf8Chars(_, _)
Utf8Chars(bytes, i) ==
    IF i > Len(bytes) THEN <<>>
    ELSE LET n == Utf8Len(bytes, i)
         IN <<Utf8Scalar(bytes, i, n)>> \o Utf8Chars(bytes, i + n)

\* Mutant: the bytes are taken for chars unvalidated.
from_utf8_unchecked(bytes) == [ok |-> TRUE, str |-> bytes]

\* String::from_utf8.
from_utf8(bytes) ==
    IF Utf8Valid(bytes, 1)
    THEN [ok |-> TRUE, str |-> Utf8Chars(bytes, 1)]
    ELSE [ok |-> FALSE, str |-> <<>>]

-----------------------------------------------------------------------------
(* The stream under the reader and the writer: std::io::Cursor over a Vec   *)
(* ("memory"), a std::fs::File ("file"), or a Cursor over a fixed-size      *)
(* buffer ("fixed").  A stream value is [data, pos].                        *)

\* Bytes the stream takes of an n-byte write at position p.
Accepted(b, s, n) ==
    IF b = "fixed" THEN Min(n, Max(0, Len(s.data) - s.pos)) ELSE n

\* Mutant: the bytes taken always lengthen the stream.
LenAfterAppend(b, s, k) == Len(s.data) + k

\* Length of the stream after it took k bytes at position p.
LenAfterWrite(b, s, k) ==
    CASE b = "memory" -> Max(Len(s.data), s.pos + k)
      [] b = "file"   -> IF k = 0 THEN Len(s.data) ELSE Max(Len(s.data), s.pos + k)
      [] b = "fixed"  -> Len(s.data)

\* Write::write: [data, pos, n], n the number of bytes written.
stream_write(b, s, bytes) ==
    LET k == Accepted(b, s, Len(bytes))
        p == s.pos
        n == LenAfterWrite(b, s, k)
    IN [data |-> [i \in 1..n |->
                    IF i > p /\ i <= p + k THEN bytes[i - p]
                    ELSE IF i <= Len(s.data) THEN s.data[i]
                    ELSE 0],
        pos  |-> p + k,
        n    |-> k]

\* Mutant: a short read is padded with zeros.
stream_read_padded(s, n, eof) ==
    [ok |-> TRUE,
     bytes |-> [i \in 1..n |->
                  IF s.pos + i <= Len(s.data) THEN s.data[s.pos + i] ELSE 0],
     pos |-> s.pos + n]

\* Read::read_exact of an n-byte buffer: [ok, bytes, pos].  Where a failed
\* read leaves the cursor depends on the stream and the toolchain: at its
\* place or at the end of the data (eof is "stay" or "end").
stream_read_exact(s, n, eof) ==
    IF n = 0 \/ n <= Len(s.data) - s.pos
    THEN [ok |-> TRUE,
          bytes |-> [i \in 1..n |-> s.data[s.pos + i]],
          pos |-> s.pos + n]
    ELSE [ok |-> FALSE,
          bytes |-> <<>>,
          pos |-> IF eof = "stay" THEN s.pos ELSE Len(s.data)]

\* Seek::seek(SeekFrom::Start(to)).
stream_seek(s, to) == [data |-> s.data, pos |-> to]

-----------------------------------------------------------------------------
(* Results.  Every reader and writer operation yields                       *)
(*   [data, pos]  the stream after it,                                      *)
(*   ok, err      Ok or Err and the error,                                  *)
(*   ret          the value of Ok(..),                                      *)
(*   alloc        the length of the buffer it allocated (0: none).          *)

NoErr == [kind |-> "none", msg |-> "", args |-> <<>>]

\* io::Error of a read past the end of the data.
EofErr ==
    [kind |-> "UnexpectedEof", msg |-> "failed to fill whole buffer", args |-> <<>>]

\* The errors the crate itself makes, all Error::new(ErrorKind::Other, ..).
\* args are the length and the limit that format! puts in the message.
GuardErr(len, max) ==
    [kind |-> "Other", msg |-> "length {} exceeds max buffer size {}",
     args |-> <<len, max[1]>>]

Utf8Err == [kind |-> "Other", msg |-> "invalid utf-8", args |-> <<>>]

CharErr == [kind |-> "Other", msg |-> "invalid character", args |-> <<>>]

Ok(s, ret, alloc) ==
    [data |-> s.data, pos |-> s.pos, ok |-> TRUE, err |-> NoErr,
     ret |-> ret, alloc |-> alloc]

Err(s, err, alloc) ==
    [data |-> s.data, pos |-> s.pos, ok |-> FALSE, err |-> err,
     ret |-> <<>>, alloc |-> alloc]

St(r) == [data |-> r.data, pos |-> r.pos]

\* guard_size!: TRUE when the macro returns the error.
guard_size(len, max) == max # None /\ len > max[1]

-----------------------------------------------------------------------------
(* BinaryReader.  opts is the reader's Options, s the stream, eof where a   *)
(* failed read_exact leaves the cursor.                                     *)

\* read_u8 .. read_i128, read_f32, read_f64, read_usize, read_isize.
read_num(opts, s, t, eof) ==
    LET rd == stream_read_exact(s, Width(t), eof)
        s1 == [data |-> s.data, pos |-> rd.pos]
    IN IF rd.ok THEN Ok(s1, decode_endian(opts.endian, t, rd.bytes), 0)
       ELSE Err(s1, EofErr, 0)

\* The type of the length prefix of a string.
PrefixType(f64) == IF f64 THEN "u64" ELSE "u32"

\* Mutant: a prefix equal to the limit is rejected too.
read_string_strict(opts, f64, s, eof) ==
    LET r1 == read_num(opts, s, PrefixType(f64), eof)
    IN IF ~r1.ok THEN r1
       ELSE LET str_len == AsUsize(PrefixType(f64), r1.ret)
            IN IF opts.max_buffer_size # None /\ str_len >= opts.max_buffer_size[1]
               THEN Err(St(r1), GuardErr(str_len, opts.max_buffer_size), 0)
               ELSE LET rd == stream_read_exact(St(r1), str_len, eof)
                        s2 == [data |-> s.data, pos |-> rd.pos]
                        u  == from_utf8(rd.bytes)
                    IN IF ~rd.ok THEN Err(s2, EofErr, str_len)
                       ELSE IF u.ok THEN Ok(s2, u.str, str_len)
                       ELSE Err(s2, Utf8Err, str_len)

\* Mutant: a read refused by the guard puts the cursor back.
read_string_restoring(opts, f64, s, eof) ==
    LET r1 == read_num(opts, s, PrefixType(f64), eof)
    IN IF ~r1.ok THEN r1
       ELSE LET str_len == AsUsize(PrefixType(f64), r1.ret)
            IN IF guard_size(str_len, opts.max_buffer_size)
               THEN Err(s, GuardErr(str_len, opts.max_buffer_size), 0)
               ELSE LET rd == stream_read_exact(St(r1), str_len, eof)
                        s2 == [data |-> s.data, pos |-> rd.pos]
                        u  == from_utf8(rd.bytes)
                    IN IF ~rd.ok THEN Err(s2, EofErr, str_len)
                       ELSE IF u.ok THEN Ok(s2, u.str, str_len)
                       ELSE Err(s2, Utf8Err, str_len)

read_string(opts, f64, s, eof) ==
    LET r1 == read_num(opts, s, PrefixType(f64), eof)
    IN IF ~r1.ok THEN r1
       ELSE LET str_len == AsUsize(PrefixType(f64), r1.ret)
            IN IF guard_size(str_len, opts.max_buffer_size)
               THEN Err(St(r1), GuardErr(str_len, opts.max_buffer_size), 0)
               ELSE LET rd == stream_read_exact(St(r1), str_len, eof)
                        s2 == [data |-> s.data, pos |-> rd.pos]
                        u  == from_utf8(rd.bytes)
                    IN IF ~rd.ok THEN Err(s2, EofErr, str_len)
                       ELSE IF u.ok THEN Ok(s2, u.str, str_len)
                       ELSE Err(s2, Utf8Err, str_len)

\* char::from_u32 of read_u32.
read_char(opts, s, eof) ==
    LET r == read_num(opts, s, "u32", eof)
    IN IF ~r.ok THEN r
       ELSE IF IsChar(AsUsize("u32", r.ret))
       THEN Ok(St(r), AsUsize("u32", r.ret), 0)
       ELSE Err(St(r), CharErr, 0)

\* Mutant: the byte is read as an i8.
read_bool_signed(opts, s, eof) ==
    LET r == read_num(opts, s, "i8", eof)
    IN IF ~r.ok THEN r ELSE Ok(St(r), r.ret[1] > 0, 0)

read_bool(opts, s, eof) ==
    LET r == read_num(opts, s, "u8", eof)
    IN IF ~r.ok THEN r ELSE Ok(St(r), r.ret[1] > 0, 0)

\* Mutant: the guard comes after the read.
read_bytes_late_guard(opts, s, length, eof) ==
    LET rd == stream_read_exact(s, length, eof)
        s1 == [data |-> s.data, pos |-> rd.pos]
    IN IF guard_size(length, opts.max_buffer_size)
       THEN Err(s1, GuardErr(length, opts.max_buffer_size), length)
       ELSE IF rd.ok THEN Ok(s1, rd.bytes, length)
       ELSE Err(s1, EofErr, length)

read_bytes(opts, s, length, eof) ==
    IF guard_size(length, opts.max_buffer_size)
    THEN Err(s, GuardErr(length, opts.max_buffer_size), 0)
    ELSE LET rd == stream_read_exact(s, length, eof)
             s1 == [data |-> s.data, pos |-> rd.pos]
         IN IF rd.ok THEN Ok(s1, rd.bytes, length)
            ELSE Err(s1, EofErr, length)

\* seek(SeekFrom::Start(to)), of reader and writer alike.
seek(s, to) == Ok(stream_seek(s, to), to, 0)

\* tell / stream_position.
tell(s) == Ok(s, s.pos, 0)

\* Mutant: the cursor stays at the end the length was taken at.
len_no_restore(s) ==
    LET length == Len(s.data)
    IN Ok(stream_seek(s, length), length, 0)

\* len: seek to the end, then back to the position tell gave.
len(s) ==
    LET position == tell(s).ret
        length   == Len(s.data)
        atEnd    == stream_seek(s, length)
    IN Ok(St(seek(atEnd, position)), length, 0)

\* stream_length of the futures module, which its reader's and writer's len
\* call: the position, a seek to the end, a seek back.
stream_length(s) ==
    LET position == s.pos
        atEnd    == stream_seek(s, Len(s.data))
        length   == atEnd.pos
    IN Ok(stream_seek(atEnd, position), length, 0)

\* SeekStream::len of the backends: the length of the buffer under the
\* cursor, or of the file's metadata.
SeekStream_len(s) == Ok(s, Len(s.data), 0)

-----------------------------------------------------------------------------
(* BinaryWriter.  b is the stream's backend.                                *)

\* write_u8 .. write_i128, write_f32, write_f64, write_usize, write_isize:
\* encode_endian! returns Ok of what Write::write returned.
write_num(opts, b, s, t, v) ==
    LET w == stream_write(b, s, encode_bytes(opts.endian, t, v))
    IN Ok(St(w), w.n, 0)

\* Mutant: the guard comes after the length prefix is written.
write_string_late_guard(opts, f64, b, s, str) ==
    LET bytes == as_bytes(str)
        r1 == write_num(opts, b, s, PrefixType(f64),
                        FromLen(PrefixType(f64), Len(bytes)))
        w  == stream_write(b, St(r1), bytes)
    IN IF guard_size(Len(bytes), opts.max_buffer_size)
       THEN Err(St(r1), GuardErr(Len(bytes), opts.max_buffer_size), 0)
       ELSE Ok(St(w), w.n, 0)

\* Mutant: the prefix is a u64 whatever the features.
write_string_wide(opts, f64, b, s, str) ==
    LET bytes == as_bytes(str)
    IN IF guard_size(Len(bytes), opts.max_buffer_size)
       THEN Err(s, GuardErr(Len(bytes), opts.max_buffer_size), 0)
       ELSE LET r1 == write_num(opts, b, s, "u64", FromLen("u64", Len(bytes)))
                w  == stream_write(b, St(r1), bytes)
            IN Ok(St(w), w.n, 0)

\* Mutant: the prefix holds the number of chars, not of bytes.
write_string_chars(opts, f64, b, s, str) ==
    LET bytes == as_bytes(str)
    IN IF guard_size(Len(bytes), opts.max_buffer_size)
       THEN Err(s, GuardErr(Len(bytes), opts.max_buffer_size), 0)
       ELSE LET r1 == write_num(opts, b, s, PrefixType(f64),
                                FromLen(PrefixType(f64), Len(str)))
                w  == stream_write(b, St(r1), bytes)
            IN Ok(St(w), w.n, 0)

\* Mutant: the prefix counts in the value returned.
write_string_total(opts, f64, b, s, str) ==
    LET bytes == as_bytes(str)
    IN IF guard_size(Len(bytes), opts.max_buffer_size)
       THEN Err(s, GuardErr(Len(bytes), opts.max_buffer_size), 0)
       ELSE LET r1 == write_num(opts, b, s, PrefixType(f64),
                                FromLen(PrefixType(f64), Len(bytes)))
                w  == stream_write(b, St(r1), bytes)
            IN Ok(St(w), r1.ret + w.n, 0)

write_string(opts, f64, b, s, str) ==
    LET bytes == as_bytes(str)
    IN IF guard_size(Len(bytes), opts.max_buffer_size)
       THEN Err(s, GuardErr(Len(bytes), opts.max_buffer_size), 0)
       ELSE LET r1 == write_num(opts, b, s, PrefixType(f64),
                                FromLen(PrefixType(f64), Len(bytes)))
                w  == stream_write(b, St(r1), bytes)
            IN Ok(St(w), w.n, 0)

write_char(opts, b, s, c) == write_num(opts, b, s, "u32", FromLen("u32", c))

write_bool(opts, b, s, value) ==
    write_num(opts, b, s, "u8", <<IF value THEN 1 ELSE 0>>)

write_bytes(opts, b, s, bytes) ==
    IF guard_size(Len(bytes), opts.max_buffer_size)
    THEN Err(s, GuardErr(Len(bytes), opts.max_buffer_size), 0)
    ELSE LET w == stream_write(b, s, bytes)
         IN Ok(St(w), w.n, 0)

-----------------------------------------------------------------------------
(* The suspending readers and writers: src/futures, src/async_stream and    *)
(* src/tokio.  Their fixed-width accessors are those of the blocking ones;  *)
(* their strings follow.  f32 is the `32bit` feature.                       *)

\* futures::BinaryWriter::write_string.
futures_write_string(opts, f64, b, s, str) ==
    LET bytes == as_bytes(str)
        t     == IF f64 THEN "u64" ELSE "u32"
    IN IF guard_size(Len(bytes), opts.max_buffer_size)
       THEN Err(s, GuardErr(Len(bytes), opts.max_buffer_size), 0)
       ELSE LET r1 == write_num(opts, b, s, t, FromLen(t, Len(bytes)))
                w  == stream_write(b, St(r1), bytes)
            IN Ok(St(w), w.n, 0)

\* async_stream::BinaryWriter::write_string.
async_stream_write_string(opts, f32, b, s, str) ==
    LET bytes == as_bytes(str)
        t     == IF f32 THEN "u32" ELSE "u64"
    IN IF guard_size(Len(bytes), opts.max_buffer_size)
       THEN Err(s, GuardErr(Len(bytes), opts.max_buffer_size), 0)
       ELSE LET r1 == write_num(opts, b, s, t, FromLen(t, Len(bytes)))
                w  == stream_write(b, St(r1), bytes)
            IN Ok(St(w), w.n, 0)

\* tokio::BinaryWriter::write_string: no size guard.
tokio_write_string(opts, f32, b, s, str) ==
    LET bytes == as_bytes(str)
        t     == IF f32 THEN "u32" ELSE "u64"
        r1    == write_num(opts, b, s, t, FromLen(t, Len(bytes)))
        w     == stream_write(b, St(r1), bytes)
    IN Ok(St(w), w.n, 0)

\* The string read behind a prefix of type t, guarded or not.
read_prefixed(opts, t, guarded, s, eof) ==
    LET r1 == read_num(opts, s, t, eof)
    IN IF ~r1.ok THEN r1
       ELSE LET str_len == AsUsize(t, r1.ret)
            IN IF guarded /\ guard_size(str_len, opts.max_buffer_size)
               THEN Err(St(r1), GuardErr(str_len, opts.max_buffer_size), 0)
               ELSE LET rd == stream_read_exact(St(r1), str_len, eof)
                        s2 == [data |-> s.data, pos |-> rd.pos]
                        u  == from_utf8(rd.bytes)
                    IN IF ~rd.ok THEN Err(s2, EofErr, str_len)
                       ELSE IF u.ok THEN Ok(s2, u.str, str_len)
                       ELSE Err(s2, Utf8Err, str_len)

\* futures::BinaryReader::read_string.
futures_read_string(opts, f64, s, eof) ==
    read_prefixed(opts, IF f64 THEN "u64" ELSE "u32", TRUE, s, eof)

\* async_stream::BinaryReader::read_string.
async_stream_read_string(opts, f32, s, eof) ==
    read_prefixed(opts, IF f32 THEN "u32" ELSE "u64", TRUE, s, eof)

\* tokio::BinaryReader::read_string: no size guard.
tokio_read_string(opts, f32, s, eof) ==
    read_prefixed(opts, IF f32 THEN "u32" ELSE "u64", FALSE, s, eof)

Variants == {"blocking", "futures", "async_stream", "tokio"}

\* write_string of the writer of variant v.
variant_write_string(v, opts, f64, f32, b, s, str) ==
    CASE v = "blocking"     -> write_string(opts, f64, b, s, str)
      [] v = "futures"      -> futures_write_string(opts, f64, b, s, str)
      [] v = "async_stream" -> async_stream_write_string(opts, f32, b, s, str)
      [] v = "tokio"        -> tokio_write_string(opts, f32, b, s, str)

\* read_string of the reader of variant v.
variant_read_string(v, opts, f64, f32, s, eof) ==
    CASE v = "blocking"     -> read_string(opts, f64, s, eof)
      [] v = "futures"      -> futures_read_string(opts, f64, s, eof)
      [] v = "async_stream" -> async_stream_read_string(opts, f32, s, eof)
      [] v = "tokio"        -> tokio_read_string(opts, f32, s, eof)

\* tokio::BinaryReader::read_bytes: no size guard.
tokio_read_bytes(opts, s, length, eof) ==
    LET rd == stream_read_exact(s, length, eof)
        s1 == [data |-> s.data, pos |-> rd.pos]
    IN IF rd.ok THEN Ok(s1, rd.bytes, length) ELSE Err(s1, EofErr, length)

\* tokio::BinaryWriter::write_bytes: no size guard.
tokio_write_bytes(opts, b, s, bytes) ==
    LET w == stream_write(b, s, bytes)
    IN Ok(St(w), w.n, 0)

\* read_bytes of the reader of variant v; the futures and the async_stream
\* reader have the body of the blocking one.
variant_read_bytes(v, opts, s, length, eof) ==
    IF v = "tokio" THEN tokio_read_bytes(opts, s, length, eof)
    ELSE read_bytes(opts, s, length, eof)

\* write_bytes of the writer of variant v.
variant_write_bytes(v, opts, b, s, bytes) ==
    IF v = "tokio" THEN tokio_write_bytes(opts, b, s, bytes)
    ELSE write_bytes(opts, b, s, bytes)

\* The type of the length prefix of variant v under the build's features.
variant_prefix(v, f64, f32) ==
    IF v \in {"blocking", "futures"} THEN (IF f64 THEN "u64" ELSE "u32")
    ELSE (IF f32 THEN "u32" ELSE "u64")

-----------------------------------------------------------------------------
(* The record of the futures module's tests: Entry([u8; 16], Group(a, b)),  *)
(* encoded with a backpatched length.  An entry is [id, a, b].              *)

\* impl Encodable for Group.
Group_encode(opts, b, s, g) ==
    LET r1 == write_num(opts, b, s, "u32", FromLen("u32", Len(g.a)))
        r2 == write_bytes(opts, b, St(r1), g.a)
        r3 == write_num(opts, b, St(r2), "u32", FromLen("u32", Len(g.b)))
        r4 == write_bytes(opts, b, St(r3), g.b)
    IN IF ~r2.ok THEN r2
       ELSE IF ~r4.ok THEN r4
       ELSE Ok(St(r4), <<>>, 0)

\* Mutant: the length is counted from the placeholder's first byte.
Entry_encode_from_placeholder(opts, b, s, e) ==
    LET r1       == write_bytes(opts, b, s, e.id)
        size_pos == tell(St(r1)).ret
        r2       == write_num(opts, b, St(r1), "u32", FromLen("u32", 0))
        r3       == Group_encode(opts, b, St(r2), e)
        row_pos  == tell(St(r3)).ret
        row_len  == row_pos - size_pos
        r4       == seek(St(r3), size_pos)
        r5       == write_num(opts, b, St(r4), "u32", FromLen("u32", row_len))
        r6       == seek(St(r5), row_pos)
    IN IF ~r1.ok THEN r1
       ELSE IF ~r3.ok THEN r3
       ELSE Ok(St(r6),
               [size_pos |-> size_pos, row_pos |-> row_pos, row_len |-> row_len],
               0)

\* Mutant: the writer stays behind the length it patched.
Entry_encode_no_return(opts, b, s, e) ==
    LET r1       == write_bytes(opts, b, s, e.id)
        size_pos == tell(St(r1)).ret
        r2       == write_num(opts, b, St(r1), "u32", FromLen("u32", 0))
        r3       == Group_encode(opts, b, St(r2), e)
        row_pos  == tell(St(r3)).ret
        row_len  == row_pos - (size_pos + 4)
        r4       == seek(St(r3), size_pos)
        r5       == write_num(opts, b, St(r4), "u32", FromLen("u32", row_len))
    IN IF ~r1.ok THEN r1
       ELSE IF ~r3.ok THEN r3
       ELSE Ok(St(r5),
               [size_pos |-> size_pos, row_pos |-> row_pos, row_len |-> row_len],
               0)

\* impl Encodable for Entry.  ret is [size_pos, row_pos, row_len].
Entry_encode(opts, b, s, e) ==
    LET r1       == write_bytes(opts, b, s, e.id)
        size_pos == tell(St(r1)).ret
        r2       == write_num(opts, b, St(r1), "u32", FromLen("u32", 0))
        r3       == Group_encode(opts, b, St(r2), e)
        row_pos  == tell(St(r3)).ret
        row_len  == row_pos - (size_pos + 4)
        r4       == seek(St(r3), size_pos)
        r5       == write_num(opts, b, St(r4), "u32", FromLen("u32", row_len))
        r6       == seek(St(r5), row_pos)
    IN IF ~r1.ok THEN r1
       ELSE IF ~r3.ok THEN r3
       ELSE Ok(St(r6),
               [size_pos |-> size_pos, row_pos |-> row_pos, row_len |-> row_len],
               0)

-----------------------------------------------------------------------------
(* Encodable and Decodable of the futures module.  A value is [ty, of, val]: *)
(* ty a primitive type, "bool", "char" or "String" with of = "-", or         *)
(* "Option" with of the type of the value it may hold and val None or        *)
(* Some(v).                                                                  *)

Prim(t, v) == [ty |-> t, of |-> "-", val |-> v]

Opt(t, o) == [ty |-> "Option", of |-> t, val |-> o]

\* Default::default().
Default(t) ==
    CASE t \in NumTypes -> [j \in 1..Limbs(t) |-> 0]
      [] t = "bool"     -> FALSE
      [] t = "char"     -> 0
      [] t = "String"   -> <<>>

\* impl_encode_decode!, encode: the writer's accessor of the type, its byte
\* count dropped.
impl_encode(opts, f64, b, s, t, v) ==
    LET r == CASE t \in NumTypes -> write_num(opts, b, s, t, v)
               [] t = "bool"     -> write_bool(opts, b, s, v)
               [] t = "char"     -> write_char(opts, b, s, v)
               [] t = "String"   -> write_string(opts, f64, b, s, v)
    IN IF r.ok THEN Ok(St(r), <<>>, 0) ELSE r

\* impl_encode_decode!, decode: ret is the value read into self.
impl_decode(opts, f64, s, eof, t) ==
    CASE t \in NumTypes -> read_num(opts, s, t, eof)
      [] t = "bool"     -> read_bool(opts, s, eof)
      [] t = "char"     -> read_char(opts, s, eof)
      [] t = "String"   -> read_string(opts, f64, s, eof)

\* Mutant: the presence byte is left out when the value is absent.
Option_encode_bare(opts, f64, b, s, t, o) ==
    IF o = None THEN Ok(s, <<>>, 0)
    ELSE LET r1 == write_bool(opts, b, s, TRUE)
         IN impl_encode(opts, f64, b, St(r1), t, o[1])

\* impl Encodable for Option<T>.
Option_encode(opts, f64, b, s, t, o) ==
    LET r1 == write_bool(opts, b, s, o # None)
    IN IF ~r1.ok THEN r1
       ELSE IF o # None THEN impl_encode(opts, f64, b, St(r1), t, o[1])
       ELSE Ok(St(r1), <<>>, 0)

\* impl Decodable for Option<T>: self is the Option decoded into, ret what
\* it holds afterwards.
Option_decode(opts, f64, s, eof, t, self) ==
    LET r1 == read_bool(opts, s, eof)
    IN IF ~r1.ok THEN r1
       ELSE IF r1.ret
       THEN LET r2 == impl_decode(opts, f64, St(r1), eof, t)
            IN IF ~r2.ok THEN r2 ELSE Ok(St(r2), Some(r2.ret), r2.alloc)
       ELSE Ok(St(r1), self, 0)

\* Encodable::encode of a value.
Encodable_encode(opts, f64, b, s, x) ==
    IF x.ty = "Option" THEN Option_encode(opts, f64, b, s, x.of, x.val)
    ELSE impl_encode(opts, f64, b, s, x.ty, x.val)

\* Decodable::decode into the value self: ret is self afterwards.
Decodable_decode(opts, f64, s, eof, self) ==
    LET r == IF self.ty = "Option"
             THEN Option_decode(opts, f64, s, eof, self.of, self.val)
             ELSE impl_decode(opts, f64, s, eof, self.ty)
    IN IF r.ok THEN Ok(St(r), [ty |-> self.ty, of |-> self.of, val |-> r.ret],
                       r.alloc)
       ELSE r

-----------------------------------------------------------------------------
(* Inputs the sessions draw from. *)

MinValue(t) ==
    [j \in 1..Limbs(t) |->
        IF Signed(t) /\ j = Limbs(t)
        THEN (IF Width(t) = 1 THEN 0 - 128 ELSE 0 - 32768)
        ELSE 0]

MaxValue(t) ==
    [j \in 1..Limbs(t) |->
        IF Width(t) = 1 THEN (IF Signed(t) THEN 127 ELSE 255)
        ELSE IF Signed(t) /\ j = Limbs(t) THEN 32767
        ELSE 65535]

\* The value whose little-endian bytes are 1, 2, 3, ...
Pattern(t) ==
    [j \in 1..Limbs(t) |->
        IF Width(t) = 1 THEN 1 ELSE (2 * j - 1) + 256 * (2 * j)]

\* -2 for the signed types.
MinusTwo(t) ==
    [j \in 1..Limbs(t) |->
        IF j = Limbs(t) THEN 0 - (IF j = 1 THEN 2 ELSE 1)
        ELSE IF j = 1 THEN 65534 ELSE 65535]

\* Bit patterns of 1.0, -0.0 and a NaN.
FloatSamples(t) ==
    IF t = "f32" THEN {<<0, 16256>>, <<0, 32768>>, <<1, 32704>>}
    ELSE {<<0, 0, 0, 16368>>, <<0, 0, 0, 32768>>, <<1, 0, 0, 32760>>}

Samples(t) ==
    IF t \in FloatTypes THEN FloatSamples(t)
    ELSE {MinValue(t), MaxValue(t), Pattern(t)}
         \cup (IF Signed(t) THEN {MinusTwo(t)} ELSE {})

SeekTargets == 0..MaxSeek

EofModes == {"stay", "end"}

Endians == {"Little", "Big"}

-----------------------------------------------------------------------------
(* The operations as actions on the session. *)

Cur == [data |-> data, pos |-> pos]

NoWrite == [op |-> "none", ty |-> "-", val |-> <<>>, at |-> 0, n |-> 0]

NoOp ==
    [op |-> "new", ty |-> "-", arg |-> <<>>, eof |-> "-", ok |-> TRUE,
     err |-> NoErr, ret |-> <<>>, alloc |-> 0, pos0 |-> 0, data0 |-> <<>>]

\* The stream and the record of the operation, for every operation.
Done(op, ty, arg, eof, r) ==
    /\ data' = r.data
    /\ pos' = r.pos
    /\ last' = [op |-> op, ty |-> ty, arg |-> arg, eof |-> eof, ok |-> r.ok,
                err |-> r.err, ret |-> r.ret, alloc |-> r.alloc,
                pos0 |-> pos, data0 |-> data]
    /\ UNCHANGED <<backend, options, feature64, feature32, compat_flush, pending>>

\* A write operation; nwrites counts the ones that succeeded.
Written(op, ty, arg, r) ==
    /\ Done(op, ty, arg, "-", r)
    /\ nwrites' = IF r.ok THEN nwrites + 1 ELSE nwrites
    /\ wrote' = IF r.ok
                THEN [op |-> op, ty |-> ty, val |-> arg, at |-> pos, n |-> r.ret]
                ELSE IF r.data = data THEN wrote
                ELSE NoWrite

Queried(op, ty, arg, eof, r) ==
    /\ Done(op, ty, arg, eof, r)
    /\ UNCHANGED <<nwrites, wrote>>

\* A read operation; eof matters only to one that fails.
Fetched(op, ty, arg, eof, r) ==
    /\ eof = "stay" \/ ~r.ok
    /\ Queried(op, ty, arg, eof, r)

WriteNum(t, v) == Written("write_num", t, v, write_num(options, backend, Cur, t, v))

WriteString(str) ==
    Written("write_string", "String", str,
            write_string(options, feature64, backend, Cur, str))

WriteChar(c) == Written("write_char", "char", c, write_char(options, backend, Cur, c))

WriteBool(v) == Written("write_bool", "bool", v, write_bool(options, backend, Cur, v))

WriteBytes(bytes) ==
    Written("write_bytes", "bytes", bytes, write_bytes(options, backend, Cur, bytes))

\* Encodable::encode of x; wrote.n is the number of bytes the writer moved by.
Encode(x) ==
    LET r == Encodable_encode(options, feature64, backend, Cur, x)
    IN /\ Done("encode", x.ty, x, "-", r)
       /\ nwrites' = IF r.ok THEN nwrites + 1 ELSE nwrites
       /\ wrote' = IF r.ok
                   THEN [op |-> "encode", ty |-> x.ty, val |-> x, at |-> pos,
                         n |-> r.pos - pos]
                   ELSE IF r.data = data THEN wrote
                   ELSE NoWrite

Decode(self, eof) ==
    Fetched("decode", self.ty, self, eof,
            Decodable_decode(options, feature64, Cur, eof, self))

EncodeEntry(e) ==
    Written("encode", "Entry", e, Entry_encode(options, backend, Cur, e))

ReadNum(t, eof) == Fetched("read_num", t, <<>>, eof, read_num(options, Cur, t, eof))

WriteStringBy(v, str) ==
    Written("write_string_by", v, str,
            variant_write_string(v, options, feature64, feature32, backend, Cur, str))

ReadStringBy(v, eof) ==
    Fetched("read_string_by", v, <<>>, eof,
            variant_read_string(v, options, feature64, feature32, Cur, eof))

ReadBytesBy(v, n, eof) ==
    Fetched("read_bytes_by", v, n, eof, variant_read_bytes(v, options, Cur, n, eof))

WriteBytesBy(v, bytes) ==
    Written("write_bytes_by", v, bytes,
            variant_write_bytes(v, options, backend, Cur, bytes))

\* read_<T> of a reader made over the same stream with the Endian e.
ReadNumAs(e, t, eof) ==
    Fetched("read_num_as", t, e, eof,
            read_num([options EXCEPT !.endian = e], Cur, t, eof))

ReadString(eof) ==
    Fetched("read_string", "String", <<>>, eof,
            read_string(options, feature64, Cur, eof))

ReadChar(eof) == Fetched("read_char", "char", <<>>, eof, read_char(options, Cur, eof))

ReadBool(eof) == Fetched("read_bool", "bool", <<>>, eof, read_bool(options, Cur, eof))

ReadBytes(n, eof) ==
    Fetched("read_bytes", "bytes", n, eof, read_bytes(options, Cur, n, eof))

Seek(to) == Queried("seek", "-", to, "-", seek(Cur, to))

Tell == Queried("tell", "-", <<>>, "-", tell(Cur))

StreamLen == Queried("len", "-", <<>>, "-", len(Cur))

StreamLength == Queried("stream_length", "-", <<>>, "-", stream_length(Cur))

BackendLen == Queried("SeekStream_len", "-", <<>>, "-", SeekStream_len(Cur))

-----------------------------------------------------------------------------
(* One value written and read back: every numeric type, its extreme values, *)
(* both byte orders, at every offset 0..MaxSeek of an empty stream.         *)

InitCodec ==
    /\ data = <<>>
    /\ pos = 0
    /\ backend = "memory"
    /\ options \in [endian : Endians, max_buffer_size : {None}]
    /\ feature64 = FALSE
    /\ feature32 = FALSE
    /\ compat_flush = FALSE
    /\ pending = <<>>
    /\ nwrites = 0
    /\ wrote = NoWrite
    /\ last = NoOp

CodecWrite == wrote = NoWrite /\ \E t \in NumTypes : \E v \in Samples(t) : WriteNum(t, v)

CodecSeek == \E to \in SeekTargets : Seek(to)

\* The value is read back with the type it was written with.
CodecRead == wrote # NoWrite /\ \E eof \in EofModes : ReadNum(wrote.ty, eof)

\* The value is read by a reader of the other Endian.
CodecReadAs ==
    /\ wrote # NoWrite
    /\ \E e \in Endians \ {options.endian}, eof \in EofModes :
          ReadNumAs(e, wrote.ty, eof)

NextCodec == CodecWrite \/ CodecSeek \/ CodecRead \/ CodecReadAs

SpecCodec == InitCodec /\ [][NextCodec]_vars

\* C1: a read_<T> issued at the offset where the last write_<T> put a value
\* of the same integer type, under the same Endian, returns Ok of exactly
\* that value, for every integer type and its MIN, MAX and other values.
IntegerRoundTrip ==
    ( /\ last.op = "read_num"
      /\ last.ty \in IntTypes
      /\ wrote.op = "write_num"
      /\ wrote.ty = last.ty
      /\ wrote.at = last.pos0 )
    => ( /\ last.ok
         /\ last.ret = wrote.val
         /\ pos = last.pos0 + Width(last.ty) )

\* i128::MIN written at an offset past the start under Endian::Big, read back.
IntegerRoundTripWitness ==
    /\ last.op = "read_num"
    /\ last.ty = "i128"
    /\ wrote.op = "write_num"
    /\ wrote.ty = "i128"
    /\ wrote.val = MinValue("i128")
    /\ wrote.at = last.pos0
    /\ wrote.at > 0
    /\ options.endian = "Big"
    /\ last.ok
    /\ last.ret = MinValue("i128")

\* The last operation read, from where the last value was written, a value
\* of more than one byte.
ReadsWritten ==
    /\ last.op \in {"read_num", "read_num_as"}
    /\ wrote.op = "write_num"
    /\ wrote.ty = last.ty
    /\ wrote.at = last.pos0
    /\ Width(last.ty) > 1

\* The bytes the last write put in the stream.
BytesWritten == SubSeq(data, wrote.at + 1, wrote.at + wrote.n)

\* C16: a value of more than one byte read back under the Endian it was
\* written with is the value written; read back under the other Endian it
\* is a different value when its bytes are not a palindrome; and the bytes
\* written are the reversal of those the other Endian writes.
EndianSymmetry ==
    ReadsWritten =>
        /\ last.ok
        /\ last.op = "read_num" => last.ret = wrote.val
        /\ (last.op = "read_num_as" /\ BytesWritten # Reverse(BytesWritten))
              => last.ret # wrote.val
        /\ BytesWritten =
              Reverse(write_num([options EXCEPT !.endian =
                                   IF options.endian = "Big" THEN "Little" ELSE "Big"],
                                "memory", [data |-> <<>>, pos |-> 0],
                                wrote.ty, wrote.val).data)

\* The u32 0x04030201 written under Endian::Big and read under
\* Endian::Little as 0x01020304.
EndianSymmetryWitness ==
    /\ ReadsWritten
    /\ last.op = "read_num_as"
    /\ options.endian = "Big"
    /\ last.arg = "Little"
    /\ last.ty = "u32"
    /\ wrote.val = <<513, 1027>>
    /\ BytesWritten = <<4, 3, 2, 1>>
    /\ last.ret = <<772, 258>>

-----------------------------------------------------------------------------
(* Strings and byte buffers against max_buffer_size: a writer and a reader  *)
(* with the same Options over one stream, lengths at and just past the      *)
(* limit, and length prefixes that were not written by write_string.        *)

\* MaxBuf chars 'a', one more, and MaxBuf chars U+00E9 (two bytes each).
GuardStrings ==
    {[i \in 1..n |-> 97] : n \in {MaxBuf, MaxBuf + 1}}
    \cup {[i \in 1..MaxBuf |-> 233]}

GuardBuffers == {[i \in 1..n |-> 7] : n \in {MaxBuf, MaxBuf + 1}}

\* Length prefixes with no payload behind them: one past the limit, and MAX.
HostilePrefixes(t) == {FromLen(t, MaxBuf + 1), MaxValue(t)}

InitGuard ==
    /\ data = <<>>
    /\ pos = 0
    /\ backend = "memory"
    /\ options \in [endian : Endians, max_buffer_size : {None, Some(MaxBuf)}]
    /\ feature64 \in BOOLEAN
    /\ feature32 = FALSE
    /\ compat_flush = FALSE
    /\ pending = <<>>
    /\ nwrites = 0
    /\ wrote = NoWrite
    /\ last = NoOp

\* The session makes no more than MaxWrites writes that succeed.  A write
\* fails only under a limit, so without one a session that has made them all
\* attempts no more.
WithinWrites == nwrites' <= MaxWrites

MayWrite == nwrites < MaxWrites \/ options.max_buffer_size # None

GuardWriteString == MayWrite /\ \E str \in GuardStrings : WriteString(str) /\ WithinWrites

GuardWriteBytes == MayWrite /\ \E bytes \in GuardBuffers : WriteBytes(bytes) /\ WithinWrites

GuardWritePrefix ==
    MayWrite /\ \E v \in HostilePrefixes(PrefixType(feature64)) :
        WriteNum(PrefixType(feature64), v) /\ WithinWrites

GuardSeek == \E to \in {0, MaxSeek} : Seek(to)

GuardReadString == \E eof \in EofModes : ReadString(eof)

GuardReadBytes ==
    \E n \in {0, MaxBuf, MaxBuf + 1}, eof \in EofModes : ReadBytes(n, eof)

NextGuard ==
    \/ GuardWriteString
    \/ GuardWriteBytes
    \/ GuardWritePrefix
    \/ GuardSeek
    \/ GuardReadString
    \/ GuardReadBytes

SpecGuard == InitGuard /\ [][NextGuard]_vars

\* The limit of the session's Options, when one is set.
Limited == options.max_buffer_size # None

Limit == options.max_buffer_size[1]

\* The last operation failed with the size guard's error.
IsGuardErr == ~last.ok /\ last.err.msg = GuardErr(0, Some(0)).msg

\* Byte length of the payload of the last write_string or write_bytes.
PayloadLen ==
    IF last.op = "write_string" THEN Len(as_bytes(last.arg)) ELSE Len(last.arg)

\* C2: with max_buffer_size = Some(M), write_string and write_bytes of a
\* payload longer than M bytes return the size error and leave the stream's
\* contents, length and position as they were.
WriteGuard ==
    ( /\ last.op \in {"write_string", "write_bytes"}
      /\ Limited
      /\ PayloadLen > Limit )
    => ( /\ ~last.ok
         /\ last.err = GuardErr(PayloadLen, options.max_buffer_size)
         /\ data = last.data0
         /\ pos = last.pos0 )

\* A string of no more than M chars but more than M bytes, refused in the
\* middle of a stream that holds data.
WriteGuardWitness ==
    /\ last.op = "write_string"
    /\ Limited
    /\ Len(last.arg) <= Limit
    /\ PayloadLen > Limit
    /\ ~last.ok
    /\ last.pos0 < Len(last.data0)

\* The length the prefix at the last operation's offset decodes to.
PrefixAt ==
    LET t == PrefixType(feature64)
    IN AsUsize(t, decode_endian(options.endian, t,
                   SubSeq(last.data0, last.pos0 + 1, last.pos0 + Width(t))))

PrefixReadable == last.pos0 + Width(PrefixType(feature64)) <= Len(last.data0)

\* C3: read_string over a prefix that decodes to L fails with the size error
\* exactly when a limit M is set and L > M (L = M passes; no limit, no
\* rejection); the rejection comes after the prefix alone was consumed and
\* before any buffer is allocated.
ReadStringGuard ==
    (last.op = "read_string" /\ PrefixReadable)
    => ( /\ IsGuardErr <=> (Limited /\ PrefixAt > Limit)
         /\ IsGuardErr
            => ( /\ ~last.ok
                 /\ last.err = GuardErr(PrefixAt, options.max_buffer_size)
                 /\ last.alloc = 0
                 /\ pos = last.pos0 + Width(PrefixType(feature64))
                 /\ data = last.data0 ) )

\* A string of exactly M bytes is read back under the limit M.
ReadStringGuardWitness ==
    /\ last.op = "read_string"
    /\ Limited
    /\ PrefixReadable
    /\ PrefixAt = Limit
    /\ last.ok
    /\ Len(as_bytes(last.ret)) = Limit

\* C4: read_bytes(n) with n > M returns the size error with the position
\* where it was and nothing allocated; with n <= M (or no limit) it is never
\* the size error, succeeds exactly when n bytes remain, and then returns
\* those n bytes and advances the position by n.
ReadBytesGuard ==
    last.op = "read_bytes"
    => IF Limited /\ last.arg > Limit
       THEN /\ ~last.ok
            /\ last.err = GuardErr(last.arg, options.max_buffer_size)
            /\ last.alloc = 0
            /\ pos = last.pos0
       ELSE /\ ~IsGuardErr
            /\ last.ok <=> (last.arg = 0 \/ last.pos0 + last.arg <= Len(last.data0))
            /\ last.ok => /\ last.ret = SubSeq(last.data0, last.pos0 + 1,
                                               last.pos0 + last.arg)
                          /\ pos = last.pos0 + last.arg

\* M + 1 bytes asked where M + 1 bytes remain: only the guard refuses.
ReadBytesGuardWitness ==
    /\ last.op = "read_bytes"
    /\ Limited
    /\ last.arg = Limit + 1
    /\ last.pos0 + last.arg <= Len(last.data0)
    /\ ~last.ok

-----------------------------------------------------------------------------
(* The general session: a writer and a reader over one stream, with one     *)
(* numeric type of each width, bool, char, a string and a byte buffer,      *)
(* seeks to 0 and MaxSeek, tell and len.                                    *)

\* One numeric type of each width: 1, 2, 4, 8 and 16 bytes.
WidthTypes == {"u8", "i16", "f32", "u64", "i128"}

\* 'a' and U+20AC, which is three bytes of UTF-8.
SessionChars == {8364}

SessionStrings == {<<97, 8364>>}

SessionBuffers == {<<7, 8, 9>>}

Init ==
    /\ data = <<>>
    /\ pos = 0
    /\ backend = "memory"
    /\ options \in [endian : Endians, max_buffer_size : {None}]
    /\ feature64 \in BOOLEAN
    /\ feature32 = FALSE
    /\ compat_flush = FALSE
    /\ pending = <<>>
    /\ nwrites = 0
    /\ wrote = NoWrite
    /\ last = NoOp

\* The session makes at most MaxHeld writes, each to a stream that still
\* holds fewer than MaxHeld bytes.
Writable == nwrites < MaxHeld /\ Len(data) < MaxHeld

DoWriteNum ==
    Writable /\ \E t \in WidthTypes :
        WriteNum(t, IF t \in FloatTypes THEN <<0, 16256>> ELSE Pattern(t))

DoWriteBool == Writable /\ \E v \in BOOLEAN : WriteBool(v)

DoWriteChar == Writable /\ \E c \in SessionChars : WriteChar(c)

DoWriteString == Writable /\ \E str \in SessionStrings : WriteString(str)

DoWriteBytes == Writable /\ \E bytes \in SessionBuffers : WriteBytes(bytes)

DoSeek == \E to \in {0, MaxSeek} : Seek(to)

DoTell == Tell

DoLen == StreamLen

DoStreamLength == StreamLength

DoBackendLen == BackendLen

DoReadNum == \E t \in WidthTypes, eof \in EofModes : ReadNum(t, eof)

DoReadBool == \E eof \in EofModes : ReadBool(eof)

DoReadChar == \E eof \in EofModes : ReadChar(eof)

DoReadString == \E eof \in EofModes : ReadString(eof)

DoReadBytes == \E n \in {0, 3}, eof \in EofModes : ReadBytes(n, eof)

Next ==
    \/ DoWriteNum
    \/ DoWriteBool
    \/ DoWriteChar
    \/ DoWriteString
    \/ DoWriteBytes
    \/ DoSeek
    \/ DoTell
    \/ DoLen
    \/ DoStreamLength
    \/ DoBackendLen
    \/ DoReadNum
    \/ DoReadBool
    \/ DoReadChar
    \/ DoReadString
    \/ DoReadBytes

Spec == Init /\ [][Next]_vars

TypeOK ==
    /\ data \in Seq(0..255)
    /\ pos \in Nat
    /\ nwrites \in Nat
    /\ last.ok \in BOOLEAN

\* Bytes the last operation moves the cursor by when it succeeds.
Advance ==
    CASE last.op \in {"write_num", "read_num"}   -> Width(last.ty)
      [] last.op \in {"write_char", "read_char"} -> 4
      [] last.op \in {"write_bool", "read_bool"} -> 1
      [] last.op = "write_bytes"  -> Len(last.arg)
      [] last.op = "read_bytes"   -> last.arg
      [] last.op = "write_string" ->
            Width(PrefixType(feature64)) + Len(as_bytes(last.arg))
      [] last.op = "read_string"  ->
            Width(PrefixType(feature64)) + Len(as_bytes(last.ret))
      [] OTHER -> 0

\* C9: a successful fixed-width read or write of T advances the position by
\* exactly the width of T, a char by 4, a bool by 1, a byte buffer of n bytes
\* by n, a string by its prefix width plus its n bytes of UTF-8; seek to q
\* puts the position at q and tell returns the position.
PositionAdvance ==
    /\ (last.ok /\ last.op \notin {"new", "seek"}) => pos = last.pos0 + Advance
    /\ last.op = "seek" => (last.ok /\ pos = last.arg)
    /\ last.op = "tell" => (last.ok /\ last.ret = pos)

\* The length queries of reader, writer and backends.
LenOps == {"len", "stream_length", "SeekStream_len"}

\* C11: a length query returns the total length of the stream and leaves the
\* position and the bytes as they were, wherever the cursor stands; a second
\* query right after the first returns the same length.
LenKeepsPosition ==
    /\ [](last.op \in LenOps =>
            /\ last.ok
            /\ last.ret = Len(last.data0)
            /\ pos = last.pos0
            /\ data = last.data0)
    /\ [][(last.op \in LenOps /\ last'.op \in LenOps) => last'.ret = last.ret]_vars

\* len with the cursor past the end of a stream that holds data.
LenKeepsPositionWitness ==
    /\ last.op = "len"
    /\ Len(data) > 0
    /\ last.pos0 > Len(data)
    /\ pos = last.pos0
    /\ last.ret = Len(data)

-----------------------------------------------------------------------------
(* Overwriting: 4-byte values and empty buffers written over an in-memory   *)
(* stream or a file whose cursor starts at 0 or at MaxSeek, with seeks back *)
(* to 0.                                                                    *)

\* The f32 values 1.0, 2.0, .. 8.0: the k-th write of the session writes k.
OverlapValue(k) ==
    <<0, <<16256, 16384, 16448, 16512, 16544, 16576, 16608, 16640>>[Min(k, 8)]>>

InitOverlap ==
    /\ data = <<>>
    /\ pos \in {0, MaxSeek}
    /\ backend \in {"memory", "file"}
    /\ options = [endian |-> "Little", max_buffer_size |-> None]
    /\ feature64 = FALSE
    /\ feature32 = FALSE
    /\ compat_flush = FALSE
    /\ pending = <<>>
    /\ nwrites = 0
    /\ wrote = NoWrite
    /\ last = NoOp

OverlapWrite ==
    nwrites < MaxOverlap /\ WriteNum("f32", OverlapValue(nwrites + 1))

OverlapWriteEmpty == nwrites < MaxOverlap /\ WriteBytes(<<>>)

OverlapSeek == Seek(0)

OverlapRead == \E eof \in EofModes : ReadNum("f32", eof)

NextOverlap == OverlapWrite \/ OverlapWriteEmpty \/ OverlapSeek \/ OverlapRead

SpecOverlap == InitOverlap /\ [][NextOverlap]_vars

\* The bytes the last write handed to the stream.
WrittenBytes ==
    IF last.op = "write_num" THEN encode_bytes(options.endian, last.ty, last.arg)
    ELSE last.arg

\* The last write left everything outside its own bytes as it was (zeros
\* where it wrote past the end), and its bytes where the cursor stood.
WriteFrame ==
    /\ Len(data) >= Len(last.data0)
    /\ \A i \in 1..Len(data) :
          data[i] = IF i > last.pos0 /\ i <= last.pos0 + Len(WrittenBytes)
                    THEN WrittenBytes[i - last.pos0]
                    ELSE IF i <= Len(last.data0) THEN last.data0[i]
                    ELSE 0

IsWrite == last.op \in {"write_num", "write_bytes"} /\ last.ok

\* C8 as stated: a write of n bytes at position p over a stream of length L
\* leaves the length max(L, p + n), for every n.
OverlapLengthAnyWrite ==
    IsWrite => /\ Len(data) = Max(Len(last.data0), last.pos0 + Len(WrittenBytes))
               /\ WriteFrame

\* C8, amended: a write of n >= 1 bytes at p over a stream of length L leaves
\* the length max(L, p + n); a write of no bytes leaves max(L, p) in memory
\* and L on a file; either way the stream never shrinks and every byte
\* outside the written range keeps its value, so values written over earlier
\* ones are what a read at their offset returns.
OverlapLength ==
    /\ IsWrite
       => /\ Len(WrittenBytes) >= 1
             => Len(data) = Max(Len(last.data0), last.pos0 + Len(WrittenBytes))
          /\ Len(WrittenBytes) = 0
             => Len(data) = IF backend = "file" THEN Len(last.data0)
                            ELSE Max(Len(last.data0), last.pos0)
          /\ WriteFrame
    /\ ( /\ last.op = "read_num"
         /\ wrote.op = "write_num"
         /\ wrote.at = last.pos0 )
       => (last.ok /\ last.ret = wrote.val)

\* 1.0, 2.0, 3.0, a seek to 0, then 4.0, 5.0, 6.0: the stream is the 12
\* bytes of the second set, and the read at offset 8 returns 6.0.
OverlapLengthWitness ==
    /\ nwrites = 6
    /\ data = <<0, 0, 128, 64, 0, 0, 160, 64, 0, 0, 192, 64>>
    /\ last.op = "read_num"
    /\ last.pos0 = 8
    /\ last.ok
    /\ last.ret = OverlapValue(6)

-----------------------------------------------------------------------------
(* Records with a backpatched length: Entry::encode over an empty stream or *)
(* over one that holds earlier data, from offset 0 or MaxSeek, and the       *)
(* record read back field by field.                                         *)

\* The 16 bytes of an id.
RecordId == [i \in 1..16 |-> 170 + i]

\* Payloads of 8, 11 and 9 bytes.
Entries ==
    {[id |-> RecordId, a |-> <<>>, b |-> <<>>],
     [id |-> RecordId, a |-> <<9>>, b |-> <<8, 8>>],
     [id |-> RecordId, a |-> <<>>, b |-> <<7>>]}

\* Data the stream holds before the writer is made.
Earlier == [i \in 1..36 |-> 238]

InitRecord ==
    /\ data \in {<<>>, Earlier}
    /\ pos \in {0, MaxSeek}
    /\ backend = "memory"
    /\ options \in [endian : Endians, max_buffer_size : {None, Some(MaxBuf)}]
    /\ feature64 = FALSE
    /\ feature32 = FALSE
    /\ compat_flush = FALSE
    /\ pending = <<>>
    /\ nwrites = 0
    /\ wrote = NoWrite
    /\ last = NoOp

RecordEncode == MayWrite /\ \E e \in Entries : EncodeEntry(e) /\ WithinWrites

RecordSeek == Seek(0)

RecordReadId == \E eof \in EofModes : ReadBytes(16, eof)

RecordReadLen == \E eof \in EofModes : ReadNum("u32", eof)

NextRecord == RecordEncode \/ RecordSeek \/ RecordReadId \/ RecordReadLen

SpecRecord == InitRecord /\ [][NextRecord]_vars

\* Bytes of the payload of an entry: group_len(a), a, group_len(b), b.
PayloadSize(e) == 4 + Len(e.a) + 4 + Len(e.b)

Encoded == last.op = "encode" /\ last.ok

\* The u32 the stream holds at offset p.
U32At(p) == AsUsize("u32", decode_endian(options.endian, "u32", SubSeq(data, p + 1, p + 4)))

RecordBytes(e, lenField) ==
    e.id \o lenField
         \o encode_bytes(options.endian, "u32", FromLen("u32", Len(e.a))) \o e.a
         \o encode_bytes(options.endian, "u32", FromLen("u32", Len(e.b))) \o e.b

\* The stream had the record gone out in one write with a zero placeholder.
Unpatched ==
    stream_write(backend, [data |-> last.data0, pos |-> last.pos0],
                 RecordBytes(last.arg, Zeros(4))).data

\* C7: after Entry::encode returns Ok the writer stands right after the
\* payload, where the next field goes, and the backpatch changed nothing but
\* the placeholder's 4 bytes: the id, the payload and every byte of the
\* stream outside the record are as the forward writes left them.
BackpatchFrame ==
    Encoded
    => /\ pos = last.pos0 + 16 + 4 + PayloadSize(last.arg)
       /\ pos = last.ret.row_pos
       /\ Len(last.data0) <= pos => pos = Len(data)
       /\ Len(data) = Len(Unpatched)
       /\ \A i \in 1..Len(data) :
             (i <= last.ret.size_pos \/ i > last.ret.size_pos + 4)
             => data[i] = Unpatched[i]

\* A record written over earlier data, which goes on past the record's end.
BackpatchFrameWitness ==
    /\ Encoded
    /\ last.pos0 > 0
    /\ Len(last.data0) > pos
    /\ PayloadSize(last.arg) > 8
    /\ data[pos + 1] = 238

-----------------------------------------------------------------------------
(* A writer over a stream that cannot grow: a Cursor over a buffer of        *)
(* FixedLen bytes, whose Write::write takes what fits and reports how much.  *)

InitFixed ==
    /\ data = Zeros(FixedLen)
    /\ pos = 0
    /\ backend = "fixed"
    /\ options \in [endian : Endians, max_buffer_size : {None}]
    /\ feature64 = FALSE
    /\ feature32 = FALSE
    /\ compat_flush = FALSE
    /\ pending = <<>>
    /\ nwrites = 0
    /\ wrote = NoWrite
    /\ last = NoOp

FixedWrite == MayWrite /\ \E t \in WidthTypes : WriteNum(t, Pattern(t)) /\ WithinWrites

FixedSeek == \E to \in {0, MaxSeek, FixedLen} : Seek(to)

FixedRead == \E t \in WidthTypes, eof \in EofModes : ReadNum(t, eof)

NextFixed == FixedWrite \/ FixedSeek \/ FixedRead

SpecFixed == InitFixed /\ [][NextFixed]_vars

\* C10: a fixed-width write of W bytes that returns Ok has placed all W
\* bytes and advanced the position by W; when the stream takes fewer, the
\* write is an error.
ShortWriteIsError ==
    (last.op = "write_num" /\ last.ok)
    => /\ pos = last.pos0 + Width(last.ty)
       /\ SubSeq(data, last.pos0 + 1, pos)
             = encode_bytes(options.endian, last.ty, last.arg)

-----------------------------------------------------------------------------
(* A reader over a stream it is given: the bytes 1, 2, .. n for every n up  *)
(* to MaxGiven, read with every fixed-width read from every offset.         *)

GivenStreams == {[i \in 1..n |-> i] : n \in 0..MaxGiven}

InitReader ==
    /\ data \in GivenStreams
    /\ pos = 0
    /\ backend = "memory"
    /\ options \in [endian : Endians, max_buffer_size : {None}]
    /\ feature64 = FALSE
    /\ feature32 = FALSE
    /\ compat_flush = FALSE
    /\ pending = <<>>
    /\ nwrites = 0
    /\ wrote = NoWrite
    /\ last = NoOp

ReaderSeek == \E to \in SeekTargets : Seek(to)

ReaderReadNum == \E t \in NumTypes, eof \in EofModes : ReadNum(t, eof)

ReaderReadBool == \E eof \in EofModes : ReadBool(eof)

ReaderReadChar == \E eof \in EofModes : ReadChar(eof)

NextReader == ReaderSeek \/ ReaderReadNum \/ ReaderReadBool \/ ReaderReadChar

SpecReader == InitReader /\ [][NextReader]_vars

\* Width of the fixed-width read the last operation was.
ReadWidth ==
    CASE last.op = "read_num"  -> Width(last.ty)
      [] last.op = "read_bool" -> 1
      [] last.op = "read_char" -> 4

\* C5: a fixed-width read of W bytes issued where fewer than W bytes remain
\* (the cursor past the end included) fails with the end-of-data error and
\* yields no value.
ReadOutOfRange ==
    ( /\ last.op \in {"read_num", "read_bool", "read_char"}
      /\ ReadWidth > Len(last.data0) - last.pos0 )
    => ( /\ ~last.ok
         /\ last.err = EofErr
         /\ last.ret = <<>> )

\* A second read_f32 over the four bytes of one f32.
ReadOutOfRangeWitness ==
    /\ last.op = "read_num"
    /\ last.ty = "f32"
    /\ Len(last.data0) = 4
    /\ last.pos0 = 4
    /\ ~last.ok

-----------------------------------------------------------------------------
(* The Encodable / Decodable protocol: up to MaxFields values encoded one   *)
(* after the other, into an empty stream or over the bytes of an earlier    *)
(* session, then decoded into targets that already hold a value.            *)

ProtocolValues ==
    {Prim("u16", Pattern("u16")),
     Prim("bool", TRUE),
     Prim("String", <<97, 233>>),
     Opt("u8", None), Opt("u8", Some(<<7>>)),
     Opt("String", Some(<<>>))}

InitProtocol ==
    /\ data \in {<<>>, <<238, 238, 238>>}
    /\ pos = 0
    /\ backend = "memory"
    /\ options \in [endian : Endians, max_buffer_size : {None}]
    /\ feature64 \in BOOLEAN
    /\ feature32 = FALSE
    /\ compat_flush = FALSE
    /\ pending = <<>>
    /\ nwrites = 0
    /\ wrote = NoWrite
    /\ last = NoOp

\* A field is encoded behind the one before it, or from the start.
ProtocolEncode ==
    /\ nwrites < MaxFields
    /\ pos \in {0, wrote.at + wrote.n}
    /\ \E x \in ProtocolValues : Encode(x)

ProtocolSeek == \E to \in {0, wrote.at} : Seek(to)

ProtocolDecode == \E self \in ProtocolValues, eof \in EofModes : Decode(self, eof)

NextProtocol ==
    \/ ProtocolEncode
    \/ ProtocolSeek
    \/ ProtocolDecode

SpecProtocol == InitProtocol /\ [][NextProtocol]_vars

\* The last operation decoded, from where the last value was encoded, into a
\* target of that value's type.
DecodesEncoded ==
    /\ last.op = "decode"
    /\ wrote.op = "encode"
    /\ last.pos0 = wrote.at
    /\ last.arg.ty = wrote.val.ty
    /\ last.arg.of = wrote.val.of

\* C12: decoding from where a value was encoded, into a target of its type,
\* succeeds, leaves the target equal to the value and the reader where the
\* writer ended.
DecodeSymmetry ==
    DecodesEncoded =>
        /\ last.ok
        /\ last.ret = wrote.val
        /\ pos = wrote.at + wrote.n

\* C13: an Option decoded from a presence byte of 0 has consumed that one
\* byte and is None, whatever it held before.
OptionDecodeAbsent ==
    (/\ last.op = "decode"
     /\ last.ty = "Option"
     /\ last.ok
     /\ last.pos0 < Len(data)
     /\ data[last.pos0 + 1] = 0)
    => /\ pos = last.pos0 + 1
       /\ last.ret.val = None

\* What T's encode writes to an empty stream.
EncodingOf(t, v) ==
    impl_encode(options, feature64, "memory", [data |-> <<>>, pos |-> 0], t, v).data

\* C14: Option's encode writes one presence byte, 1 for Some and 0 for None,
\* then the encoding of the value when it is Some and nothing when it is
\* None, and leaves every other byte of the stream as it was.
OptionEncodeLayout ==
    (last.op = "encode" /\ last.ty = "Option" /\ last.ok)
    => LET o  == last.arg.val
           p0 == last.pos0
           payload == IF o = None THEN <<>> ELSE EncodingOf(last.arg.of, o[1])
       IN /\ pos = p0 + 1 + Len(payload)
          /\ data[p0 + 1] = (IF o = None THEN 0 ELSE 1)
          /\ SubSeq(data, p0 + 2, pos) = payload
          /\ Len(data) = Max(Len(last.data0), pos)
          /\ \A i \in 1..Len(last.data0) :
                (i <= p0 \/ i > pos) => data[i] = last.data0[i]

\* Some(7u8) encoded over the first bytes of an earlier session.
OptionEncodeLayoutWitness ==
    /\ last.op = "encode"
    /\ last.ok
    /\ last.arg = Opt("u8", Some(<<7>>))
    /\ last.pos0 = 0
    /\ Len(last.data0) > 2
    /\ SubSeq(data, 1, 2) = <<1, 7>>
    /\ pos = 2

-----------------------------------------------------------------------------
(* Booleans: streams of up to MaxSeek bytes that hold canonical and other   *)
(* bytes, read as bools from every offset, and bools written over them.     *)

BoolBytes == {0, 1, 128, 255}

BoolStreams == UNION {[1..n -> BoolBytes] : n \in 0..MaxSeek}

InitBool ==
    /\ data \in BoolStreams
    /\ pos = 0
    /\ backend = "memory"
    /\ options \in [endian : Endians, max_buffer_size : {None}]
    /\ feature64 = FALSE
    /\ feature32 = FALSE
    /\ compat_flush = FALSE
    /\ pending = <<>>
    /\ nwrites = 0
    /\ wrote = NoWrite
    /\ last = NoOp

BoolWrite == MayWrite /\ (\E v \in BOOLEAN : WriteBool(v)) /\ WithinWrites

BoolSeek == \E to \in SeekTargets : Seek(to)

BoolRead == \E eof \in EofModes : ReadBool(eof)

NextBool ==
    \/ BoolWrite
    \/ BoolSeek
    \/ BoolRead

SpecBool == InitBool /\ [][NextBool]_vars

\* C15: read_bool of a byte b takes that one byte and returns TRUE exactly
\* when b is not 0 (so for 1, 128 and 255); write_bool puts the one byte 1
\* for TRUE and 0 for FALSE at the cursor and changes no other byte; a bool
\* read from where one was written is the bool written.
BooleanCodec ==
    /\ (last.op = "read_bool" /\ last.pos0 < Len(last.data0)) =>
          LET b == last.data0[last.pos0 + 1]
          IN /\ last.ok
             /\ pos = last.pos0 + 1
             /\ data = last.data0
             /\ last.ret = (b \in {1, 128, 255})
             /\ (b = 0 => last.ret = FALSE)
    /\ last.op = "write_bool" =>
          /\ last.ok
          /\ pos = last.pos0 + 1
          /\ data[pos] = (IF last.arg THEN 1 ELSE 0)
          /\ Len(data) = Max(Len(last.data0), pos)
          /\ \A i \in 1..Len(last.data0) : i # pos => data[i] = last.data0[i]
    /\ (last.op = "read_bool" /\ wrote.op = "write_bool" /\ last.pos0 = wrote.at) =>
          (last.ok /\ last.ret = wrote.val)

\* The byte 0xFF read as a bool from the middle of a stream.
BooleanCodecWitness ==
    /\ last.op = "read_bool"
    /\ last.pos0 > 0
    /\ last.pos0 < Len(last.data0)
    /\ last.data0[last.pos0 + 1] = 255
    /\ last.ok
    /\ last.ret = TRUE

-----------------------------------------------------------------------------
(* Strings written and read back, with and without a max_buffer_size: the   *)
(* empty string, one of exactly MaxBuf bytes, one of two bytes in one char  *)
(* and one of four bytes.                                                   *)

RoundTripStrings == {<<>>, [i \in 1..MaxBuf |-> 97], <<233>>, <<97, 8364>>}

InitString ==
    /\ data = <<>>
    /\ pos = 0
    /\ backend = "memory"
    /\ options \in [endian : Endians, max_buffer_size : {None, Some(MaxBuf)}]
    /\ feature64 \in BOOLEAN
    /\ feature32 = FALSE
    /\ compat_flush = FALSE
    /\ pending = <<>>
    /\ nwrites = 0
    /\ wrote = NoWrite
    /\ last = NoOp

StringWrite ==
    MayWrite /\ (\E str \in RoundTripStrings : WriteString(str)) /\ WithinWrites

StringSeek == \E to \in {0, MaxSeek} : Seek(to)

StringRead == \E eof \in EofModes : ReadString(eof)

NextString ==
    \/ StringWrite
    \/ StringSeek
    \/ StringRead

SpecString == InitString /\ [][NextString]_vars

-----------------------------------------------------------------------------
(* The layout session of slice_test: write_u32(42), write_string of "foo"   *)
(* or another string, write_char('b'), each appended to the stream, then    *)
(* reads from the start.                                                    *)

Foo == <<102, 111, 111>>

LayoutStrings == {Foo, <<>>, <<233, 8364>>}

InitLayout ==
    /\ data = <<>>
    /\ pos = 0
    /\ backend = "memory"
    /\ options \in [endian : Endians, max_buffer_size : {None}]
    /\ feature64 \in BOOLEAN
    /\ feature32 = FALSE
    /\ compat_flush = FALSE
    /\ pending = <<>>
    /\ nwrites = 0
    /\ wrote = NoWrite
    /\ last = NoOp

LayoutWrite ==
    /\ pos = Len(data)
    /\ \/ nwrites = 0 /\ WriteNum("u32", FromLen("u32", 42))
       \/ nwrites = 1 /\ \E str \in LayoutStrings : WriteString(str)
       \/ nwrites = 2 /\ WriteChar(98)

LayoutSeek == \E to \in {0, Len(data)} : Seek(to)

LayoutRead ==
    \E eof \in EofModes :
        \/ ReadNum("u32", eof)
        \/ ReadString(eof)
        \/ ReadChar(eof)

NextLayout ==
    \/ LayoutWrite
    \/ LayoutSeek
    \/ LayoutRead

SpecLayout == InitLayout /\ [][NextLayout]_vars

\* Bytes of the length prefix of the build.
PrefixWidth == IF feature64 THEN 8 ELSE 4

\* A length n below 256 as a field of w bytes in the configured byte order.
LengthField(w, n) ==
    [i \in 1..w |->
        IF (options.endian = "Little" /\ i = 1) \/ (options.endian = "Big" /\ i = w)
        THEN n ELSE 0]

-----------------------------------------------------------------------------
(* The variants against each other: a string written by the writer of one   *)
(* variant and read by the reader of another, built with the same Options   *)
(* under the same features.                                                 *)

InitVariants ==
    /\ data = <<>>
    /\ pos = 0
    /\ backend = "memory"
    /\ options \in [endian : Endians, max_buffer_size : {None}]
    /\ feature64 \in BOOLEAN
    /\ feature32 \in BOOLEAN
    /\ compat_flush = FALSE
    /\ pending = <<>>
    /\ nwrites = 0
    /\ wrote = NoWrite
    /\ last = NoOp

VariantWrite ==
    /\ MayWrite
    /\ \E v \in Variants, str \in {Foo, <<>>} : WriteStringBy(v, str)
    /\ WithinWrites

VariantSeek == \E to \in {0, MaxSeek} : Seek(to)

VariantRead == \E v \in Variants, eof \in EofModes : ReadStringBy(v, eof)

NextVariants ==
    \/ VariantWrite
    \/ VariantSeek
    \/ VariantRead

SpecVariants == InitVariants /\ [][NextVariants]_vars

\* What the blocking writer makes of the stream the last write started from.
BlockingWrite ==
    write_string(options, feature64, backend,
                 [data |-> last.data0, pos |-> last.pos0], last.arg)

\* C19: under one feature set and the same Options, the writer of every
\* variant leaves the bytes and the position the blocking writer leaves, and
\* the reader of every variant reads back the string any variant wrote.
WireIdentity ==
    /\ last.op = "write_string_by" =>
          /\ last.ok = BlockingWrite.ok
          /\ data = BlockingWrite.data
          /\ pos = BlockingWrite.pos
    /\ (last.op = "read_string_by" /\ wrote.op = "write_string_by"
          /\ last.pos0 = wrote.at)
          => (last.ok /\ last.ret = wrote.val)

-----------------------------------------------------------------------------
(* Failures: a reader over streams that hold a string prefix followed by    *)
(* bytes that are not UTF-8, a u32 that is no char (0xD800 in either byte   *)
(* order), and a prefix above MaxBuf with nothing behind it.                *)

ErrorStreams ==
    {<<2, 0, 0, 0, 255, 254>>,
     <<0, 0, 0, 2, 255, 254>>,
     <<0, 216, 0, 0>>,
     <<0, 0, 216, 0>>,
     <<MaxBuf + 1, 0, 0, 0>>}

InitErrors ==
    /\ data \in ErrorStreams
    /\ pos = 0
    /\ backend = "memory"
    /\ options \in [endian : Endians, max_buffer_size : {None, Some(MaxBuf)}]
    /\ feature64 = FALSE
    /\ feature32 = FALSE
    /\ compat_flush = FALSE
    /\ pending = <<>>
    /\ nwrites = 0
    /\ wrote = NoWrite
    /\ last = NoOp

ErrorsSeek == \E to \in SeekTargets : Seek(to)

ErrorsReadString == \E eof \in EofModes : ReadString(eof)

ErrorsReadChar == \E eof \in EofModes : ReadChar(eof)

ErrorsReadBytes == \E n \in {MaxBuf, MaxBuf + 1}, eof \in EofModes : ReadBytes(n, eof)

NextErrors ==
    \/ ErrorsSeek
    \/ ErrorsReadString
    \/ ErrorsReadChar
    \/ ErrorsReadBytes

SpecErrors == InitErrors /\ [][NextErrors]_vars

\* Why the last read failed, told from what it was given: the size guard,
\* the end of the data, bytes that are not UTF-8 or a u32 that is no char.
FailureCause ==
    CASE last.op = "read_bytes" ->
            IF Limited /\ last.arg > Limit THEN "guard" ELSE "eof"
      [] last.op = "read_char" ->
            IF last.pos0 + 4 > Len(last.data0) THEN "eof" ELSE "char"
      [] last.op = "read_string" ->
            IF ~PrefixReadable THEN "eof"
            ELSE IF Limited /\ PrefixAt > Limit THEN "guard"
            ELSE IF PrefixAt > Len(last.data0) - (last.pos0 + 4) THEN "eof"
            ELSE "utf8"

\* The length a guarded read asked for.
RequestedLen == IF last.op = "read_bytes" THEN last.arg ELSE PrefixAt

\* The kind of the error the code makes for a cause.
KindOf(cause) ==
    CASE cause = "guard" -> GuardErr(0, Some(0)).kind
      [] cause = "eof"   -> EofErr.kind
      [] cause = "utf8"  -> Utf8Err.kind
      [] cause = "char"  -> CharErr.kind

\* C20: a failed read returns an error whose kind is that of no other cause
\* of failure, and the size guard's error carries the requested length and
\* the limit.
TypedErrors ==
    (last.op \in {"read_bytes", "read_char", "read_string"} /\ ~last.ok)
    => /\ \A c \in {"guard", "eof", "utf8", "char"} \ {FailureCause} :
            last.err.kind # KindOf(c)
       /\ FailureCause = "guard" => last.err.args = <<RequestedLen, Limit>>

-----------------------------------------------------------------------------
(* Chars: streams that hold a u32 in either byte order at the edges of the  *)
(* surrogate range and of the code space, read as chars from every offset,  *)
(* and chars written over them.                                             *)

\* 0xD7FF, 0xD800, 0xDFFF, 0xE000, 0x10FFFF, 0x110000 and 0xFF000061.
CharWords ==
    {<<255, 215, 0, 0>>, <<0, 216, 0, 0>>, <<255, 223, 0, 0>>, <<0, 224, 0, 0>>,
     <<255, 255, 16, 0>>, <<0, 0, 17, 0>>, <<97, 0, 0, 255>>}

CharStreams == {<<>>, <<97, 0, 0>>} \cup CharWords \cup {Reverse(w) : w \in CharWords}

CharSamples == {0, 97, 55295, 57344, 1114111}

InitChar ==
    /\ data \in CharStreams
    /\ pos = 0
    /\ backend = "memory"
    /\ options \in [endian : Endians, max_buffer_size : {None}]
    /\ feature64 = FALSE
    /\ feature32 = FALSE
    /\ compat_flush = FALSE
    /\ pending = <<>>
    /\ nwrites = 0
    /\ wrote = NoWrite
    /\ last = NoOp

CharWrite == MayWrite /\ (\E c \in CharSamples : WriteChar(c)) /\ WithinWrites

CharSeek == \E to \in SeekTargets : Seek(to)

CharRead == \E eof \in EofModes : ReadChar(eof)

NextChar ==
    \/ CharWrite
    \/ CharSeek
    \/ CharRead

SpecChar == InitChar /\ [][NextChar]_vars

\* The four bytes at the cursor of the last operation, least significant
\* first under the configured endianness.
WordAt ==
    LET b == SubSeq(last.data0, last.pos0 + 1, last.pos0 + 4)
    IN IF options.endian = "Little" THEN b ELSE Reverse(b)

\* The u32 of WordAt is a Unicode scalar value.
ScalarAt ==
    /\ WordAt[4] = 0
    /\ LET v == WordAt[1] + 256 * WordAt[2] + 65536 * WordAt[3]
       IN v < 55296 \/ (v > 57343 /\ v < 1114112)

\* C21: read_char over four available bytes consumes exactly those four,
\* takes them as a u32 in the configured endianness and fails, with the
\* invalid-character error, exactly when that u32 is in 0xD800..=0xDFFF or
\* above 0x10FFFF; otherwise it returns the char of that value.  A char read
\* from where write_char wrote one is the char written.
InvalidCharacter ==
    /\ (last.op = "read_char" /\ last.pos0 + 4 <= Len(last.data0)) =>
          /\ pos = last.pos0 + 4
          /\ data = last.data0
          /\ ~last.ok <=> ~ScalarAt
          /\ ~last.ok => last.err = CharErr
          /\ last.ok =>
                last.ret = WordAt[1] + 256 * WordAt[2] + 65536 * WordAt[3]
    /\ (last.op = "read_char" /\ last.pos0 + 4 > Len(last.data0)) =>
          (~last.ok /\ last.err = EofErr)
    /\ (last.op = "read_char" /\ wrote.op = "write_char" /\ last.pos0 = wrote.at) =>
          (last.ok /\ last.ret = wrote.val)

\* The surrogate 0xDFFF read as a char: four bytes consumed, the error
\* returned.
InvalidCharacterWitness ==
    /\ last.op = "read_char"
    /\ last.pos0 + 4 <= Len(last.data0)
    /\ WordAt = <<255, 223, 0, 0>>
    /\ ~last.ok
    /\ last.err = CharErr
    /\ pos = last.pos0 + 4

-----------------------------------------------------------------------------
(* Strings that are not UTF-8: a reader over a length prefix in either byte *)
(* order followed by a payload of that length, well formed or not.         *)

\* Payloads that are UTF-8, as pairs of the bytes and the chars they encode.
WellFormed ==
    {<<<<>>, <<>>>>, <<<<97>>, <<97>>>>, <<<<195, 169>>, <<233>>>>,
     <<<<226, 130, 172>>, <<8364>>>>, <<<<240, 159, 152, 128>>, <<128512>>>>}

\* Payloads that are not: a lone continuation byte, a lead byte cut short,
\* an overlong form, an encoded surrogate, a value above 0x10FFFF, a byte
\* that is never UTF-8 and a three-byte form cut short.
Malformed ==
    {<<128>>, <<195>>, <<192, 128>>, <<237, 160, 128>>,
     <<244, 144, 128, 128>>, <<97, 255>>, <<226, 130>>}

Utf8Streams ==
    {encode_bytes(e, "u32", FromLen("u32", Len(p))) \o p :
        e \in Endians, p \in Malformed \cup {w[1] : w \in WellFormed}}

InitUtf8 ==
    /\ data \in Utf8Streams
    /\ pos = 0
    /\ backend = "memory"
    /\ options \in [endian : Endians, max_buffer_size : {None, Some(MaxBuf)}]
    /\ feature64 = FALSE
    /\ feature32 = FALSE
    /\ compat_flush = FALSE
    /\ pending = <<>>
    /\ nwrites = 0
    /\ wrote = NoWrite
    /\ last = NoOp

Utf8Seek == \E to \in SeekTargets : Seek(to)

Utf8ReadString == \E eof \in EofModes : ReadString(eof)

Utf8ReadNum == \E eof \in EofModes : ReadNum("u8", eof)

NextUtf8 ==
    \/ Utf8Seek
    \/ Utf8ReadString
    \/ Utf8ReadNum

SpecUtf8 == InitUtf8 /\ [][NextUtf8]_vars

\* The last read_string found its prefix, the prefix passed the guard and
\* the payload it announces is all there.
PayloadAvailable ==
    /\ last.op = "read_string"
    /\ PrefixReadable
    /\ ~(Limited /\ PrefixAt > Limit)
    /\ PrefixAt <= Len(last.data0) - (last.pos0 + 4)

PayloadAt == SubSeq(last.data0, last.pos0 + 5, last.pos0 + 4 + PrefixAt)

\* C22: read_string whose prefix passes the guard and whose payload is all
\* there has consumed the prefix and the payload; when the payload is not
\* UTF-8 it returns the invalid-utf-8 error, and when it is, the string.
InvalidUtf8 ==
    PayloadAvailable =>
        /\ pos = last.pos0 + 4 + PrefixAt
        /\ data = last.data0
        /\ PayloadAt \in Malformed => (~last.ok /\ last.err = Utf8Err)
        /\ \A w \in WellFormed :
              PayloadAt = w[1] => (last.ok /\ last.ret = w[2])

\* An encoded surrogate read as a string.
InvalidUtf8Witness ==
    /\ PayloadAvailable
    /\ PayloadAt = <<237, 160, 128>>
    /\ ~last.ok
    /\ last.err = Utf8Err
    /\ pos = last.pos0 + 7

-----------------------------------------------------------------------------
(* The backends of src/stream: MemoryStream (a Cursor over an owned Vec),   *)
(* SliceStream (a Cursor over a borrowed slice) and FileStream (a File).    *)
(* FileStream wraps any File: "FileStream/fifo" is one over a file that     *)
(* cannot seek (a FIFO), whose every seek fails and whose metadata length   *)
(* is 0.  A position is a u64, held as its residue modulo 2^64 nearest 0:   *)
(* U64Max is -1, and an addition wraps exactly when it takes a negative     *)
(* residue to a non-negative one.                                           *)

U64Max == -1

BackendKinds == {"MemoryStream", "SliceStream", "FileStream", "FileStream/fifo"}

\* Mutant: every backend implements Write.
Implements_all(b) == {"SeekStream", "Read", "Write", "ReadStream", "WriteStream"}

\* The traits each backend implements.
Implements(b) ==
    IF b = "SliceStream" THEN {"SeekStream", "Read", "ReadStream"}
    ELSE {"SeekStream", "Read", "Write", "ReadStream", "WriteStream"}

\* a > b as unsigned 64-bit values.
UGt(a, b) == IF (a < 0) = (b < 0) THEN a > b ELSE a < 0

\* The process has panicked: no value is returned to the caller.
PanicErr == [kind |-> "panic", msg |-> "", args |-> <<>>]

\* Error::new(ErrorKind::UnexpectedEof, BinaryError::ReadPastEof).
ReadPastEof == [kind |-> "UnexpectedEof", msg |-> "ReadPastEof", args |-> <<>>]

\* The io::Error of lseek on a file that cannot seek.
SeekErr == [kind |-> "NotSeekable", msg |-> "Illegal seek", args |-> <<>>]

\* The io::Error of lseek on a file for an offset above i64::MAX.
OffsetErr == [kind |-> "InvalidInput", msg |-> "Invalid argument", args |-> <<>>]

\* SeekStream::seek(to): Seek::seek(SeekFrom::Start(to)).  A Cursor takes
\* every u64; a File takes the offset as an i64.
SeekStream_seek(b, s, to) ==
    IF b = "FileStream/fifo" THEN Err(s, SeekErr, 0)
    ELSE IF b = "FileStream" /\ to < 0 THEN Err(s, OffsetErr, 0)
    ELSE Ok(stream_seek(s, to), to, 0)

\* SeekStream::tell.
SeekStream_tell(b, s) ==
    IF b = "FileStream/fifo" THEN Err(s, SeekErr, 0)
    ELSE Ok(s, s.pos, 0)

\* Read::read of Cursor and of File: the bytes from the position on, as many
\* as the buffer takes.
inner_read(s, n) ==
    LET from == IF UGt(s.pos, Len(s.data)) THEN Len(s.data) ELSE s.pos
        k    == Min(n, Len(s.data) - from)
    IN Ok([data |-> s.data, pos |-> s.pos + k],
          [n |-> k, buf |-> [i \in 1..k |-> s.data[from + i]]], 0)

\* Mutant: the bounds check is left to the cursor.
Read_read_unchecked(b, checks, s, n) == inner_read(s, n)

\* Read::read of the three backends for a buffer of n bytes.  checks: the
\* build has overflow checks, so `position as usize + buffer.len()` panics
\* where it would wrap; tell().unwrap() panics where tell fails.
Read_read(b, checks, s, n) ==
    IF b \in {"FileStream", "FileStream/fifo"}
    THEN IF ~SeekStream_tell(b, s).ok THEN Err(s, PanicErr, 0)
         ELSE IF SeekStream_tell(b, s).ret + n > Len(s.data)
         THEN Err(s, ReadPastEof, 0)
         ELSE inner_read(s, n)
    ELSE IF checks /\ s.pos < 0 /\ s.pos + n >= 0 THEN Err(s, PanicErr, 0)
         ELSE IF UGt(s.pos + n, Len(s.data)) THEN Err(s, ReadPastEof, 0)
         ELSE inner_read(s, n)

\* Write::write of MemoryStream and FileStream.
Write_write(b, s, bytes) ==
    LET w == stream_write(IF b = "MemoryStream" THEN "memory" ELSE "file", s, bytes)
    IN Ok(St(w), w.n, 0)

BackendBuffers == {<<>>, <<7, 8, 9>>}

InitBackend ==
    /\ backend \in BackendKinds
    /\ data \in IF backend = "FileStream/fifo" THEN {<<>>} ELSE BackendBuffers
    /\ pos = 0
    /\ options = [endian |-> "Little", max_buffer_size |-> None]
    /\ feature64 = FALSE
    /\ feature32 = FALSE
    /\ compat_flush = FALSE
    /\ pending = <<>>
    /\ nwrites = 0
    /\ wrote = NoWrite
    /\ last = NoOp

\* Nothing follows a panic.
Live == last.err.kind # PanicErr.kind

BackendSeek ==
    /\ Live
    /\ \E to \in SeekTargets \cup {U64Max} :
          Queried("SeekStream_seek", "-", to, "-", SeekStream_seek(backend, Cur, to))

BackendTell ==
    /\ Live
    /\ Queried("SeekStream_tell", "-", <<>>, "-", SeekStream_tell(backend, Cur))

BackendLength == Live /\ BackendLen

BackendRead ==
    /\ Live
    /\ \E n \in 0..MaxSeek, checks \in BOOLEAN :
          Queried("Read_read", IF checks THEN "overflow-checks" ELSE "wrapping",
                  n, "-", Read_read(backend, checks, Cur, n))

BackendWrite ==
    /\ Live
    /\ "Write" \in Implements(backend)
    /\ backend # "FileStream/fifo"
    /\ pos >= 0
    /\ nwrites < MaxWrites
    /\ \E bytes \in {<<>>, <<1, 2>>} :
          Written("Write_write", "bytes", bytes, Write_write(backend, Cur, bytes))

NextBackend ==
    \/ BackendSeek
    \/ BackendTell
    \/ BackendLength
    \/ BackendRead
    \/ BackendWrite

SpecBackend == InitBackend /\ [][NextBackend]_vars

\* C23: every operation of a backend returns to its caller, with Ok or with
\* an Err; none ends the process.
NoFatal == last.err.kind # PanicErr.kind

-----------------------------------------------------------------------------
(* The size guard in every variant: readers over a length prefix of MaxBuf  *)
(* or of MaxBuf + 1, as a u32 or a u64, with that many bytes behind it, and *)
(* writers given strings and buffers of those two lengths at offset 0.      *)

CoverageLens == {MaxBuf, MaxBuf + 1}

CoverageStreams ==
    {encode_bytes("Little", t, FromLen(t, n)) \o [i \in 1..n |-> 97] :
        t \in {"u32", "u64"}, n \in CoverageLens}

InitCoverage ==
    /\ data \in CoverageStreams
    /\ pos = 0
    /\ backend = "memory"
    /\ options \in [endian : {"Little"}, max_buffer_size : {None, Some(MaxBuf)}]
    /\ feature64 = FALSE
    /\ feature32 \in BOOLEAN
    /\ compat_flush = FALSE
    /\ pending = <<>>
    /\ nwrites = 0
    /\ wrote = NoWrite
    /\ last = NoOp

CoverageSeek == Seek(0)

CoverageReadString == \E v \in Variants, eof \in EofModes : ReadStringBy(v, eof)

CoverageReadBytes ==
    \E v \in Variants, n \in CoverageLens, eof \in EofModes : ReadBytesBy(v, n, eof)

CoverageWriteString ==
    /\ MayWrite
    /\ pos = 0
    /\ \E v \in Variants, n \in CoverageLens : WriteStringBy(v, [i \in 1..n |-> 97])
    /\ WithinWrites

CoverageWriteBytes ==
    /\ MayWrite
    /\ pos = 0
    /\ \E v \in Variants, n \in CoverageLens : WriteBytesBy(v, [i \in 1..n |-> 7])
    /\ WithinWrites

NextCoverage ==
    \/ CoverageSeek
    \/ CoverageReadString
    \/ CoverageReadBytes
    \/ CoverageWriteString
    \/ CoverageWriteBytes

SpecCoverage == InitCoverage /\ [][NextCoverage]_vars

\* The width of the prefix the last operation's variant reads.
VariantPrefixWidth == Width(variant_prefix(last.ty, feature64, feature32))

\* The last operation is driven by a length, which the caller or the wire
\* gave it: LengthGiven says that it got one, GivenLen is the length.
LengthGiven ==
    \/ last.op \in {"read_bytes_by", "write_bytes_by", "write_string_by"}
    \/ /\ last.op = "read_string_by"
       /\ last.pos0 + VariantPrefixWidth <= Len(last.data0)

GivenLen ==
    CASE last.op = "read_bytes_by" -> last.arg
      [] last.op \in {"write_bytes_by", "write_string_by"} -> Len(last.arg)
      [] last.op = "read_string_by" ->
            LET t == variant_prefix(last.ty, feature64, feature32)
            IN AsUsize(t, decode_endian(options.endian, t,
                   SubSeq(last.data0, last.pos0 + 1, last.pos0 + Width(t))))

\* C24: in every variant, an operation given a length above the limit fails
\* with the size error before it allocates, reads or copies: no buffer is
\* allocated, no byte of the stream changes, and the position moves by the
\* prefix alone (read_string) or not at all.
GuardCoverage ==
    (LengthGiven /\ Limited /\ GivenLen > Limit) =>
        /\ ~last.ok
        /\ last.err = GuardErr(GivenLen, options.max_buffer_size)
        /\ last.alloc = 0
        /\ data = last.data0
        /\ pos = last.pos0
                 + (IF last.op = "read_string_by" THEN VariantPrefixWidth ELSE 0)

BoundsCheckedRead ==
    last.op = "Read_read" =>
        LET p == last.pos0
            n == last.arg
            L == Len(last.data0)
        IN IF p = U64Max \/ p + n > L
           THEN /\ ~last.ok
                /\ last.err = ReadPastEof
                /\ pos = p
                /\ data = last.data0
           ELSE /\ last.ok
                /\ last.ret.n = n
                /\ last.ret.buf = SubSeq(last.data0, p + 1, p + n)
                /\ pos = p + n
                /\ data = last.data0

-----------------------------------------------------------------------------
(* The futures BinaryWriter over a stream that buffers its writes and does  *)
(* not write them out when it seeks, which is what the `tokio-compat-flush` *)
(* feature is for.  Such a stream is [data, pos, pending]: write appends to *)
(* pending, flush puts pending at pos, seek and stream_position act on pos  *)
(* alone.  Results are [st, ret].                                           *)

BufStream(d, p, q) == [data |-> d, pos |-> p, pending |-> q]

\* AsyncWrite::write of the stream.
BufStream_write(s, bytes) == BufStream(s.data, s.pos, s.pending \o bytes)

\* AsyncWrite::flush of the stream.
BufStream_flush(s) ==
    LET w == stream_write("memory", [data |-> s.data, pos |-> s.pos], s.pending)
    IN BufStream(w.data, w.pos, <<>>)

\* AsyncSeek::seek(SeekFrom::Start(to)) of the stream.
BufStream_seek(s, to) == BufStream(s.data, to, s.pending)

\* BinaryWriter::write_u8 .. of the futures module: encode_endian!.
futures_write_num(opts, s, t, v) ==
    LET bytes == encode_bytes(opts.endian, t, v)
    IN [st |-> BufStream_write(s, bytes), ret |-> Len(bytes)]

\* BinaryWriter::seek of the futures module.
futures_seek(cf, s, to) ==
    LET s1 == IF cf THEN BufStream_flush(s) ELSE s
    IN [st |-> BufStream_seek(s1, to), ret |-> to]

\* BinaryWriter::stream_position of the futures module.
futures_stream_position(cf, s) ==
    LET s1 == IF cf THEN BufStream_flush(s) ELSE s
    IN [st |-> s1, ret |-> s1.pos]

\* Mutant: len flushes as seek and stream_position do.
futures_len_flushed(cf, s) ==
    LET s1 == IF cf THEN BufStream_flush(s) ELSE s
    IN [st |-> s1, ret |-> Len(s1.data)]

\* BinaryWriter::len of the futures module: stream_length of the stream,
\* which takes the position, seeks to the end and seeks back.
futures_len(cf, s) ==
    LET position == s.pos
        atEnd    == BufStream_seek(s, Len(s.data))
        length   == atEnd.pos
    IN [st |-> BufStream_seek(atEnd, position), ret |-> length]

\* BinaryWriter::flush of the futures module.
futures_flush(s) == [st |-> BufStream_flush(s), ret |-> <<>>]

\* encode_stream of a numeric value: a writer over the stream, the value's
\* encode, the writer's flush.
encode_stream(opts, s, t, v) ==
    LET r1 == futures_write_num(opts, s, t, v)
    IN [st |-> futures_flush(r1.st).st, ret |-> <<>>]

BufCur == BufStream(data, pos, pending)

\* An operation of the writer over the buffering stream; last.arg holds the
\* bytes that were pending when it began.
Buffered(op, ty, wr, r) ==
    /\ data' = r.st.data
    /\ pos' = r.st.pos
    /\ pending' = r.st.pending
    /\ last' = [op |-> op, ty |-> ty, arg |-> pending, eof |-> "-", ok |-> TRUE,
                err |-> NoErr, ret |-> r.ret, alloc |-> 0,
                pos0 |-> pos, data0 |-> data]
    /\ nwrites' = nwrites + wr
    /\ UNCHANGED <<backend, options, feature64, feature32, compat_flush, wrote>>

InitFlush ==
    /\ data \in {<<>>, <<7, 8, 9>>}
    /\ pos = 0
    /\ backend = "buffered"
    /\ options \in [endian : Endians, max_buffer_size : {None}]
    /\ feature64 = FALSE
    /\ feature32 = FALSE
    /\ compat_flush \in BOOLEAN
    /\ pending = <<>>
    /\ nwrites = 0
    /\ wrote = NoWrite
    /\ last = NoOp

FlushWrite ==
    /\ nwrites < MaxFields
    /\ \E t \in {"u8", "u16"} :
          Buffered("write_num", t, 1, futures_write_num(options, BufCur, t, Pattern(t)))

FlushSeek ==
    \E to \in SeekTargets :
        Buffered("seek", "-", 0, futures_seek(compat_flush, BufCur, to))

FlushPosition ==
    Buffered("stream_position", "-", 0, futures_stream_position(compat_flush, BufCur))

FlushLen == Buffered("len", "-", 0, futures_len(compat_flush, BufCur))

FlushFlush == Buffered("flush", "-", 0, futures_flush(BufCur))

FlushEncodeStream ==
    /\ nwrites < MaxFields
    /\ \E t \in {"u8", "u16"} :
          Buffered("encode_stream", t, 1, encode_stream(options, BufCur, t, Pattern(t)))

NextFlush ==
    \/ FlushWrite
    \/ FlushSeek
    \/ FlushPosition
    \/ FlushLen
    \/ FlushFlush
    \/ FlushEncodeStream

SpecFlush == InitFlush /\ [][NextFlush]_vars

\* The stream the last operation began on with its pending bytes written
\* out at the offsets they were written for.
PendingLanded ==
    stream_write("memory", [data |-> last.data0, pos |-> last.pos0], last.arg)

\* C27: with `tokio-compat-flush`, after seek, stream_position or len of the
\* writer nothing is pending, the bytes written before it are at the offsets
\* they were written for, and the position or the length it returns counts
\* them; after encode_stream nothing is pending and the encoded bytes are in
\* the stream.
FlushBeforeCursorOps ==
    /\ (compat_flush /\ last.op \in {"seek", "stream_position", "len"}) =>
          /\ pending = <<>>
          /\ data = PendingLanded.data
          /\ last.op = "stream_position" => last.ret = PendingLanded.pos
          /\ last.op = "len" => last.ret = Len(PendingLanded.data)
    /\ last.op = "encode_stream" =>
          /\ pending = <<>>
          /\ SubSeq(data, pos - Width(last.ty) + 1, pos)
                = encode_bytes(options.endian, last.ty, Pattern(last.ty))

\* The last read_string found a prefix above the limit.
GuardTripped ==
    /\ last.op = "read_string"
    /\ PrefixReadable
    /\ Limited
    /\ PrefixAt > Limit

\* C28: a read_string that fails the size guard leaves the position at the
\* start position plus the prefix width, not at the start position, and has
\* consumed no byte of the payload: a read that follows it gets the first
\* payload byte.
GuardedReadPosition ==
    /\ [](GuardTripped =>
            /\ ~last.ok
            /\ pos = last.pos0 + Width(PrefixType(feature64))
            /\ pos # last.pos0
            /\ ~feature64 => pos = last.pos0 + 4)
    /\ [][(GuardTripped /\ last'.op = "read_num" /\ last'.ok) =>
             last'.ret = <<last.data0[last.pos0 + Width(PrefixType(feature64)) + 1]>>]_vars

\* A string of MaxBuf + 1 bytes refused under the limit MaxBuf, its payload
\* behind the prefix.
GuardedReadPositionWitness ==
    /\ GuardTripped
    /\ last.pos0 = 0
    /\ PrefixAt = MaxBuf + 1
    /\ Len(last.data0) = 4 + PrefixAt
    /\ pos = 4

\* Bytes of UTF-8 that the char c takes.
Utf8Width(c) == IF c < 128 THEN 1 ELSE IF c < 2048 THEN 2 ELSE IF c < 65536 THEN 3 ELSE 4

RECURSIVE PayloadBytes(_)
PayloadBytes(str) ==
    IF str = <<>> THEN 0 ELSE Utf8Width(Head(str)) + PayloadBytes(Tail(str))

\* C29: write_string returns the number of payload bytes, the prefix not
\* counted, while the position advances by the prefix width and the payload;
\* write_bytes and the fixed-width writes return the number of bytes they
\* wrote, which is what the position advances by.
WriteReturns ==
    /\ (last.op = "write_string" /\ last.ok) =>
          /\ last.ret = PayloadBytes(last.arg)
          /\ pos = last.pos0 + (IF feature64 THEN 8 ELSE 4) + last.ret
    /\ (last.op = "write_bytes" /\ last.ok) =>
          (last.ret = Len(last.arg) /\ pos = last.pos0 + last.ret)
    /\ (last.op = "write_num" /\ last.ok) =>
          (last.ret = Width(last.ty) /\ pos = last.pos0 + last.ret)
    /\ (last.op = "write_bool" /\ last.ok) =>
          (last.ret = 1 /\ pos = last.pos0 + last.ret)
    /\ (last.op = "write_char" /\ last.ok) =>
          (last.ret = 4 /\ pos = last.pos0 + last.ret)

\* The two chars 'a' and U+20AC written behind a 4-byte prefix: 4 returned,
\* 8 bytes further.
WriteReturnsWitness ==
    /\ last.op = "write_string"
    /\ last.ok
    /\ ~feature64
    /\ Len(last.arg) = 2
    /\ last.ret = 4
    /\ pos = last.pos0 + 8

-----------------------------------------------------------------------------
(* Long strings.  The byte length of a string is a usize, held as four      *)
(* limbs of 16 bits, least significant first; the lengths are those around  *)
(* 2^32 and MaxBuf.  A payload of such a length is not held as a sequence:  *)
(* the stream of this section holds the length prefixes, and the record of  *)
(* the write says how many payload bytes follow the prefix.                 *)

\* Mutant: a conversion that stops at u32::MAX.
as_u32_saturating(n) ==
    IF n[3] # 0 \/ n[4] # 0 THEN <<65535, 65535>> ELSE <<n[1], n[2]>>

\* `len as u32` of a usize.
as_u32(n) == <<n[1], n[2]>>

\* `len as u64` of a usize.
as_u64(n) == n

LongLens ==
    {<<0, 0, 0, 0>>, <<MaxBuf, 0, 0, 0>>, <<MaxBuf + 1, 0, 0, 0>>,
     <<65535, 65535, 0, 0>>, <<0, 0, 1, 0>>, <<1, 0, 1, 0>>,
     <<MaxBuf, 0, 2, 0>>, <<65535, 65535, 65535, 65535>>}

\* write_string of a string of n bytes, up to the write of the payload: the
\* guard, then the prefix.  Ok(n) is what the write of the payload returns.
write_string_len(opts, f64, b, s, n) ==
    IF guard_size(AsUsize("u64", n), opts.max_buffer_size)
    THEN Err(s, GuardErr(AsUsize("u64", n), opts.max_buffer_size), 0)
    ELSE LET r1 == IF f64 THEN write_num(opts, b, s, "u64", as_u64(n))
                   ELSE write_num(opts, b, s, "u32", as_u32(n))
         IN Ok(St(r1), n, 0)

WriteStringLen(n) ==
    Written("write_string_len", "String", n,
            write_string_len(options, feature64, backend, Cur, n))

InitLong ==
    /\ data = <<>>
    /\ pos = 0
    /\ backend = "memory"
    /\ options \in [endian : Endians, max_buffer_size : {None, Some(MaxBuf)}]
    /\ feature64 \in BOOLEAN
    /\ feature32 = FALSE
    /\ compat_flush = FALSE
    /\ pending = <<>>
    /\ nwrites = 0
    /\ wrote = NoWrite
    /\ last = NoOp

LongWrite ==
    /\ MayWrite
    /\ pos = Len(data)
    /\ \E n \in LongLens : WriteStringLen(n)
    /\ WithinWrites

LongSeek == \E to \in {0, Len(data)} : Seek(to)

LongRead == \E eof \in EofModes : ReadNum(PrefixType(feature64), eof)

NextLong ==
    \/ LongWrite
    \/ LongSeek
    \/ LongRead

SpecLong == InitLong /\ [][NextLong]_vars

\* The four bytes the last write put at its offset, as the limbs of the u32
\* they hold under the configured endianness.
PrefixWritten ==
    LET b == SubSeq(data, last.pos0 + 1, last.pos0 + 4)
        le == IF options.endian = "Little" THEN b ELSE Reverse(b)
    IN <<le[1] + 256 * le[2], le[3] + 256 * le[4]>>

\* C30: with the 4-byte prefix and no limit, write_string of n bytes returns
\* no error whatever n is and writes n modulo 2^32 as the prefix, so the
\* prefix is the number of payload bytes exactly when n is below 2^32.
PrefixTruncation ==
    (last.op = "write_string_len" /\ ~feature64 /\ ~Limited) =>
        /\ last.ok
        /\ last.ret = last.arg
        /\ PrefixWritten = <<last.arg[1], last.arg[2]>>
        /\ (PrefixWritten \o <<0, 0>> = last.arg)
              <=> (last.arg[3] = 0 /\ last.arg[4] = 0)

\* A string of 2^32 + 1 bytes written with the prefix 1.
PrefixTruncationWitness ==
    /\ last.op = "write_string_len"
    /\ ~feature64
    /\ ~Limited
    /\ last.ok
    /\ last.arg = <<1, 0, 1, 0>>
    /\ PrefixWritten = <<1, 0>>

=============================================================================
